---- MODULE Spec2Model ----
(***************************************************************************)
(* FormPopulator: populate(container, data, attributes, sanitizeHtml) and  *)
(* getValues(container, keys) over a container's element subtree.          *)
(*                                                                         *)
(* The container's descendants are a sequence of element records in        *)
(* document order.  JavaScript strings are sequences of one-character      *)
(* strings, so that conversions (ToString, ToNumber, HTML escaping) are  *)
(* computed and not assumed.  Element names, ids, attribute names and      *)
(* data keys are atomic strings.                                           *)
(***************************************************************************)
EXTENDS Integers, Sequences, FiniteSets, TLC

VARIABLES
    dom,    \* the container's element subtree, in document order
    env,    \* host page globals: [jquery, autonumeric]
    pre,    \* dom as it was when the last call started
    call,   \* the last call and its arguments
    ret,    \* what the last call returned, or that it threw
    log     \* adapter methods the last call invoked, in order

vars == <<dom, env, pre, call, ret, log>>

---------------------------------------------------------------------------
(* Bounds of the generated inputs *)

\* longest sequence value generated for a data entry
MaxArr == 2
\* most own keys of a generated data object
MaxKeys == 2

---------------------------------------------------------------------------
(* JavaScript values *)

Str(s)  == [t |-> "str",   s |-> s,    n |-> 0, a |-> <<>>]
Num(n)  == [t |-> "num",   s |-> <<>>, n |-> n, a |-> <<>>]
Bool(b) == [t |-> "bool",  s |-> <<>>, n |-> IF b THEN 1 ELSE 0, a |-> <<>>]
Null    == [t |-> "null",  s |-> <<>>, n |-> 0, a |-> <<>>]
Undef   == [t |-> "undef", s |-> <<>>, n |-> 0, a |-> <<>>]
Arr(a)  == [t |-> "arr",   s |-> <<>>, n |-> 0, a |-> a]

IsNullish(v) == v.t \in {"null", "undef"}
IsArray(v)   == v.t = "arr"

Digits == <<"0", "1", "2", "3", "4", "5", "6", "7", "8", "9">>
IsDigit(c) == \E i \in 1..Len(Digits) : Digits[i] = c
DigitVal(c) == (CHOOSE i \in 1..Len(Digits) : Digits[i] = c) - 1

\* the result of ToNumber on a string that is no numeric literal
NaN == 0 - 1

RECURSIVE NumToString(_)
NumToString(n) ==
    IF n < Len(Digits) THEN <<Digits[n + 1]>>
    ELSE NumToString(n \div Len(Digits)) \o <<Digits[(n % Len(Digits)) + 1]>>

RECURSIVE TrimLeft(_)
TrimLeft(s) == IF s # <<>> /\ Head(s) = " " THEN TrimLeft(Tail(s)) ELSE s

RECURSIVE TrimRight(_)
TrimRight(s) ==
    IF s # <<>> /\ s[Len(s)] = " " THEN TrimRight(SubSeq(s, 1, Len(s) - 1)) ELSE s

RECURSIVE DecimalValue(_)
DecimalValue(s) ==
    IF s = <<>> THEN 0
    ELSE DecimalValue(SubSeq(s, 1, Len(s) - 1)) * Len(Digits) + DigitVal(s[Len(s)])

\* ToNumber applied to a string: surrounding blanks are dropped, the empty
\* string is 0, an unsigned decimal literal is its value, anything else NaN.
StringToNumber(s) ==
    LET u == TrimRight(TrimLeft(s)) IN
    IF u = <<>> THEN 0
    ELSE IF \A i \in 1..Len(u) : IsDigit(u[i]) THEN DecimalValue(u)
    ELSE NaN

RECURSIVE JsToString(_)
RECURSIVE JoinComma(_)
\* Array.prototype.join(","): null and undefined entries give the empty string
JoinComma(a) ==
    IF a = <<>> THEN <<>>
    ELSE LET h == IF IsNullish(Head(a)) THEN <<>> ELSE JsToString(Head(a)) IN
         IF Len(a) = 1 THEN h ELSE h \o <<",">> \o JoinComma(Tail(a))

JsToString(v) ==
    CASE v.t = "str"   -> v.s
      [] v.t = "num"   -> NumToString(v.n)
      [] v.t = "bool"  -> IF v.n = 1 THEN <<"t", "r", "u", "e">>
                                     ELSE <<"f", "a", "l", "s", "e">>
      [] v.t = "null"  -> <<"n", "u", "l", "l">>
      [] v.t = "undef" -> <<"u", "n", "d", "e", "f", "i", "n", "e", "d">>
      [] v.t = "arr"   -> JoinComma(v.a)

\* a comparison that stringifies the value and compares the texts
StringifiedEquals(v, s) ==
    CASE v.t = "str"   -> v.s = s
      [] v.t = "num"   -> JsToString(v) = s
      [] v.t = "bool"  -> JsToString(v) = s
      [] v.t = "null"  -> FALSE
      [] v.t = "undef" -> FALSE
      [] v.t = "arr"   -> JsToString(v) = s

\* v == s for a value v and a string s (an element's or an option's value):
\* the abstract equality comparison of the language, which converts the
\* string to a number when v is a number or a boolean, and converts an
\* array to its joined string.
LooseEquals(v, s) ==
    CASE v.t = "str"   -> v.s = s
      [] v.t = "num"   -> StringToNumber(s) = v.n
      [] v.t = "bool"  -> StringToNumber(s) = v.n
      [] v.t = "null"  -> FALSE
      [] v.t = "undef" -> FALSE
      [] v.t = "arr"   -> JsToString(v) = s

\* truthiness of a value, as an if() condition reads it
Truthy(v) ==
    CASE v.t = "str"   -> v.s # <<>>
      [] v.t = "num"   -> v.n # 0
      [] v.t = "bool"  -> v.n = 1
      [] v.t = "null"  -> FALSE
      [] v.t = "undef" -> FALSE
      [] v.t = "arr"   -> TRUE

---------------------------------------------------------------------------
(* Elements *)

\* attribute names the generated attribute maps use
AttrNames == {"disabled", "data-x"}

Absent == [present |-> FALSE, v |-> <<>>]
Present(s) == [present |-> TRUE, v |-> s]

\* an element with nothing set; fixtures override fields of it
Element ==
    [tag |-> "div", type |-> "", name |-> "", id |-> "",
     value |-> <<>>, checked |-> FALSE,
     multiple |-> FALSE, options |-> <<>>,
     content |-> <<>>, src |-> <<>>, href |-> <<>>,
     attrs |-> [a \in AttrNames |-> Absent],
     tomselect |-> "none", selectize |-> "none", chosen |-> "none",
     an |-> "none"]

Option(v, sel) == [value |-> v, selected |-> sel]

\* indices of a sequence that satisfy a test, in order
RECURSIVE SelectIdx(_, _, _)
SelectIdx(d, Test(_), i) ==
    IF i > Len(d) THEN <<>>
    ELSE (IF Test(d[i]) THEN <<i>> ELSE <<>>) \o SelectIdx(d, Test, i + 1)

\* container.querySelectorAll('[name="key"]'), else container.querySelector('#key')
FindByNameOnly(d, key) ==
    LET HasName(e) == e.name = key IN SelectIdx(d, HasName, 1)

FindByIdFirst(d, key) ==
    LET HasId(e) == e.id = key
        byId == SelectIdx(d, HasId, 1)
    IN  IF byId # <<>> THEN <<byId[1]>>
        ELSE LET HasName(e) == e.name = key IN SelectIdx(d, HasName, 1)

FindElementsByNameOrId(d, key) ==
    LET HasName(e) == e.name = key
        HasId(e) == e.id = key
        elements == SelectIdx(d, HasName, 1)
        byId == SelectIdx(d, HasId, 1)
    IN  IF Len(elements) > 0 THEN elements
        ELSE IF byId # <<>> THEN <<byId[1]>> ELSE <<>>

\* element.checked = b; checking a radio unchecks the other radios of its group
SetChecked(d, i, b) ==
    [j \in DOMAIN d |->
        IF j = i THEN [d[j] EXCEPT !.checked = b]
        ELSE IF /\ b
                /\ d[i].tag = "input" /\ d[i].type = "radio" /\ d[i].name # ""
                /\ d[j].tag = "input" /\ d[j].type = "radio"
                /\ d[j].name = d[i].name
             THEN [d[j] EXCEPT !.checked = FALSE]
             ELSE d[j]]

\* element.selectedIndex = -1
DeselectAll(el) ==
    [el EXCEPT !.options = [j \in DOMAIN el.options |->
                               [el.options[j] EXCEPT !.selected = FALSE]]]

\* option.selected = b on option j of a select: in a select that is not
\* multiple, selecting an option deselects the others, and deselecting the
\* last selected option resets the selection to the first option.
SetOptionSelected(el, j, b) ==
    LET set == [el.options EXCEPT ![j].selected = b]
        only == [k \in DOMAIN set |-> [set[k] EXCEPT !.selected = (k = j)]]
        none == \A k \in DOMAIN set : ~set[k].selected
    IN  IF el.multiple THEN [el EXCEPT !.options = set]
        ELSE IF b THEN [el EXCEPT !.options = only]
        ELSE IF none THEN [el EXCEPT !.options = [set EXCEPT ![1].selected = TRUE]]
        ELSE [el EXCEPT !.options = set]

\* select.value: the value of the first selected option, else ""
SelectValue(el) ==
    LET IsSel(o) == o.selected
        sel == SelectIdx(el.options, IsSel, 1)
    IN  IF sel = <<>> THEN <<>> ELSE el.options[sel[1]].value

---------------------------------------------------------------------------
(* Markup *)

NoEscape(s) == s

RECURSIVE EscapeHtml(_)
EscapeHtml(s) ==
    IF s = <<>> THEN <<>>
    ELSE (CASE Head(s) = "&" -> <<"&", "a", "m", "p", ";">>
            [] Head(s) = "<" -> <<"&", "l", "t", ";">>
            [] Head(s) = ">" -> <<"&", "g", "t", ";">>
            [] OTHER -> <<Head(s)>>) \o EscapeHtml(Tail(s))

StartsWith(s, p) == Len(s) >= Len(p) /\ SubSeq(s, 1, Len(p)) = p
Drop(s, n) == SubSeq(s, n + 1, Len(s))

\* position of the first c in s, or 0
RECURSIVE IndexOf(_, _, _)
IndexOf(s, c, i) ==
    IF i > Len(s) THEN 0 ELSE IF s[i] = c THEN i ELSE IndexOf(s, c, i + 1)

\* textContent of markup: tags are dropped and character references decoded
RECURSIVE TextOf(_)
TextOf(s) ==
    IF s = <<>> THEN <<>>
    ELSE IF Head(s) = "<" /\ IndexOf(s, ">", 1) > 0 THEN TextOf(Drop(s, IndexOf(s, ">", 1)))
    ELSE IF StartsWith(s, <<"&", "l", "t", ";">>) THEN <<"<">> \o TextOf(Drop(s, 4))
    ELSE IF StartsWith(s, <<"&", "g", "t", ";">>) THEN <<">">> \o TextOf(Drop(s, 4))
    ELSE IF StartsWith(s, <<"&", "a", "m", "p", ";">>) THEN <<"&">> \o TextOf(Drop(s, 5))
    ELSE <<Head(s)>> \o TextOf(Tail(s))

\* the string a nullable DOMString property (textContent) stores for a
\* value: null and undefined both give the empty string
DomString(v) == IF IsNullish(v) THEN <<>> ELSE JsToString(v)

TagChars(tag) ==
    CASE tag = "ul" -> <<"u", "l">>
      [] tag = "ol" -> <<"o", "l">>

OpenTag(c) == <<"<">> \o c \o <<">">>
CloseTag(c) == <<"<", "/">> \o c \o <<">">>
Li(inner) == OpenTag(<<"l", "i">>) \o inner \o CloseTag(<<"l", "i">>)

RECURSIVE BuildNestedListHtml(_, _)

\* nested lists always rendered as ul
BuildNestedListHtmlUl(array, tagName) ==
    IF array = <<>> THEN <<>>
    ELSE LET item == Head(array)
             one == IF IsArray(item)
                    THEN Li(OpenTag(<<"u", "l">>) \o BuildNestedListHtml(item.a, tagName)
                            \o CloseTag(<<"u", "l">>))
                    ELSE Li(EscapeHtml(DomString(item)))
         IN  one \o BuildNestedListHtml(Tail(array), tagName)

BuildNestedListHtml(array, tagName) ==
    IF array = <<>> THEN <<>>
    ELSE LET item == Head(array)
             one == IF IsArray(item)
                    THEN Li(OpenTag(tagName) \o BuildNestedListHtml(item.a, tagName)
                            \o CloseTag(tagName))
                    ELSE Li(EscapeHtml(DomString(item)))
         IN  one \o BuildNestedListHtml(Tail(array), tagName)

\* the rendering added after the content already there
PopulateListAppend(el, value) ==
    IF ~IsArray(value) THEN [el EXCEPT !.content = @ \o EscapeHtml(DomString(value))]
    ELSE [el EXCEPT !.content = @ \o BuildNestedListHtml(value.a, TagChars(el.tag))]

PopulateList(el, value) ==
    IF ~IsArray(value) THEN [el EXCEPT !.content = EscapeHtml(DomString(value))]
    ELSE [el EXCEPT !.content = BuildNestedListHtml(value.a, TagChars(el.tag))]

---------------------------------------------------------------------------
(* One call in progress: the subtree, the adapter calls made so far, the   *)
(* keys whose processing raised and was caught, and whether an exception   *)
(* is propagating.                                                         *)

Machine(d) == [dom |-> d, log |-> <<>>, errors |-> <<>>, threw |-> FALSE]

\* the options of an element that are selected, by position
SelectedSet(el) == {j \in DOMAIN el.options : el.options[j].selected}

\* element i's adapter obj has its method m called with arg; an adapter
\* marked "throws" raises from every method. The entry also records which
\* options of the element were selected at the moment of the call.
Invoke(M, i, obj, m, arg) ==
    [M EXCEPT !.log = Append(@, [el |-> i, obj |-> obj, m |-> m, arg |-> arg,
                                 seen |-> SelectedSet(M.dom[i])]),
              !.threw = (M.dom[i][obj] = "throws")]

Update(M, i, el) == [M EXCEPT !.dom[i] = el]

---------------------------------------------------------------------------
(* Attribute maps: the value attributes[key] *)

AttrObj(pairs) == [t |-> "obj", pairs |-> pairs, s |-> <<>>]
AttrString(s)  == [t |-> "str", pairs |-> <<>>, s |-> s]
AttrNull       == [t |-> "null", pairs |-> <<>>, s |-> <<>>]

\* the own enumerable properties for..in visits: an object's entries, a
\* string's characters under their indices, nothing for null
AttrEntries(attributes) ==
    CASE attributes.t = "obj"  -> attributes.pairs
      [] attributes.t = "str"  ->
            [k \in 1..Len(attributes.s) |->
                [name |-> Digits[k], v |-> Str(<<attributes.s[k]>>)]]
      [] attributes.t = "null" -> <<>>

AttrTruthy(attributes) ==
    CASE attributes.t = "obj"  -> TRUE
      [] attributes.t = "str"  -> attributes.s # <<>>
      [] attributes.t = "null" -> FALSE

\* setAttribute raises InvalidCharacterError for a name that is empty or
\* starts with a digit
ValidAttrName(name) == name # "" /\ ~IsDigit(name)

RemoveAttr(el, name) ==
    IF name \in DOMAIN el.attrs THEN [el EXCEPT !.attrs[name] = Absent] ELSE el

ApplyAttrNullRemoves(el, name, v) ==
    IF IsNullish(v) THEN RemoveAttr(el, name)
    ELSE [el EXCEPT !.attrs = (name :> Present(JsToString(v))) @@ @]

\* a select reflects its multiple attribute: present, it accepts several
\* selections; removed, it keeps its first selected option only
Reflect(el, name) ==
    IF name # "multiple" \/ el.tag # "select" THEN el
    ELSE IF name \in DOMAIN el.attrs /\ el.attrs[name].present
    THEN [el EXCEPT !.multiple = TRUE]
    ELSE LET IsSel(o) == o.selected
             sel == SelectIdx(el.options, IsSel, 1)
         IN  [el EXCEPT !.multiple = FALSE,
                        !.options = [j \in DOMAIN @ |->
                                        [@[j] EXCEPT !.selected = (sel # <<>> /\ j = sel[1])]]]

\* the three cases of one attribute entry
ApplyAttr(el, name, v) ==
    IF v.t = "undef" THEN Reflect(RemoveAttr(el, name), name)
    ELSE IF v.t = "null"
    THEN Reflect([el EXCEPT !.attrs = (name :> Present(<<>>)) @@ @], name)
    ELSE Reflect([el EXCEPT !.attrs = (name :> Present(JsToString(v))) @@ @], name)

RECURSIVE SetAttrEntries(_, _, _)
SetAttrEntries(M, i, entries) ==
    IF M.threw \/ entries = <<>> THEN M
    ELSE LET e == Head(entries) IN
         IF e.v.t # "undef" /\ ~ValidAttrName(e.name)
         THEN [M EXCEPT !.threw = TRUE]
         ELSE SetAttrEntries(Update(M, i, ApplyAttr(M.dom[i], e.name, e.v)),
                             i, Tail(entries))

SetElementAttributes(M, i, attributes) ==
    SetAttrEntries(M, i, AttrEntries(attributes))

---------------------------------------------------------------------------
(* Selects *)

ClearSelect(M, i) ==
    LET el == M.dom[i]
        N == Update(M, i, DeselectAll(el))
    IN  IF el.tomselect # "none" THEN
            LET C == Invoke(N, i, "tomselect", "clear", Bool(TRUE)) IN
            IF C.threw THEN C ELSE Invoke(C, i, "tomselect", "sync", Undef)
        ELSE IF el.selectize # "none" THEN
            Invoke(N, i, "selectize", "clear", Bool(TRUE))
        ELSE IF env.jquery /\ el.chosen # "none" THEN
            LET C == Invoke(N, i, "chosen", "val", Null) IN
            IF C.threw THEN C ELSE Invoke(C, i, "chosen", "trigger", Undef)
        ELSE N

\* the native loop for a sequence value: every option in turn
RECURSIVE SelectMatching(_, _, _)
SelectMatching(el, value, j) ==
    IF j > Len(el.options) THEN el
    ELSE SelectMatching(
            SetOptionSelected(el, j,
                \E k \in 1..Len(value.a) : LooseEquals(value.a[k], el.options[j].value)),
            value, j + 1)

\* the native loop for a scalar value: the first matching option, then stop
SelectFirstMatch(el, value) ==
    LET Matches(o) == LooseEquals(value, o.value)
        hits == SelectIdx(el.options, Matches, 1)
    IN  IF hits = <<>> THEN el ELSE SetOptionSelected(el, hits[1], TRUE)

AsArray(value) == IF IsArray(value) THEN value ELSE Arr(<<value>>)

\* selectize looked for before tomselect
SetSelectSelectizeFirst(M, i, value) ==
    LET el == M.dom[i] IN
    IF el.selectize # "none" THEN
        Invoke(M, i, "selectize", "setValue", AsArray(value))
    ELSE IF el.tomselect # "none" THEN
        LET S == Invoke(M, i, "tomselect", "setValue", AsArray(value)) IN
        IF S.threw THEN S ELSE Invoke(S, i, "tomselect", "sync", Undef)
    ELSE IF env.jquery /\ el.chosen # "none" THEN
        LET S == Invoke(M, i, "chosen", "val", AsArray(value)) IN
        IF S.threw THEN S ELSE Invoke(S, i, "chosen", "trigger", Undef)
    ELSE IF IsArray(value) THEN Update(M, i, SelectMatching(el, value, 1))
    ELSE Update(M, i, SelectFirstMatch(el, value))

SetSelect(M, i, value) ==
    LET el == M.dom[i] IN
    IF el.tomselect # "none" THEN
        LET S == Invoke(M, i, "tomselect", "setValue", AsArray(value)) IN
        IF S.threw THEN S ELSE Invoke(S, i, "tomselect", "sync", Undef)
    ELSE IF el.selectize # "none" THEN
        Invoke(M, i, "selectize", "setValue", AsArray(value))
    ELSE IF env.jquery /\ el.chosen # "none" THEN
        LET S == Invoke(M, i, "chosen", "val", AsArray(value)) IN
        IF S.threw THEN S ELSE Invoke(S, i, "chosen", "trigger", Undef)
    ELSE IF IsArray(value) THEN Update(M, i, SelectMatching(el, value, 1))
    ELSE Update(M, i, SelectFirstMatch(el, value))

\* the guard of _populateSelect: value == null, an empty array, or ''
IsEmptySelection(value) ==
    \/ IsNullish(value)
    \/ (IsArray(value) /\ value.a = <<>>)
    \/ value = Str(<<>>)

PopulateSelectNoClear(M, i, value) ==
    IF IsEmptySelection(value) THEN M ELSE SetSelect(M, i, value)

PopulateSelectSetFirst(M, i, value) ==
    LET S == IF IsEmptySelection(value) THEN M ELSE SetSelect(M, i, value) IN
    IF S.threw THEN S ELSE ClearSelect(S, i)

PopulateSelectNoGuard(M, i, value) ==
    LET C == ClearSelect(M, i) IN
    IF C.threw THEN C ELSE SetSelect(C, i, value)

PopulateSelect(M, i, value) ==
    LET C == ClearSelect(M, i) IN
    IF C.threw THEN C
    ELSE IF IsEmptySelection(value) THEN C
    ELSE SetSelect(C, i, value)

---------------------------------------------------------------------------
(* populate *)

MediaTags == {"img", "video", "audio", "iframe"}

PopulateElement(M, i, value0, sanitizeHtml) ==
    LET value == IF IsNullish(value0) THEN Str(<<>>) ELSE value0
        el == M.dom[i]
    IN  CASE el.tag = "input" ->
                IF el.type \in {"checkbox", "radio", "file"} THEN M
                ELSE IF env.autonumeric /\ el.an # "none" THEN
                    LET S == Invoke(M, i, "an", "set", value) IN
                    IF S.threw THEN S
                    ELSE Update(S, i, [el EXCEPT !.value = JsToString(value)])
                ELSE Update(M, i, [el EXCEPT !.value = JsToString(value)])
          [] el.tag = "textarea" ->
                Update(M, i, [el EXCEPT !.value = JsToString(value)])
          [] el.tag = "select" -> PopulateSelect(M, i, value)
          [] el.tag \in MediaTags ->
                Update(M, i, [el EXCEPT !.src = JsToString(value)])
          [] el.tag = "a" ->
                Update(M, i, [el EXCEPT !.href = JsToString(value)])
          [] el.tag \in {"ul", "ol"} -> Update(M, i, PopulateList(el, value))
          [] OTHER ->
                IF sanitizeHtml
                THEN Update(M, i, [el EXCEPT !.content = EscapeHtml(DomString(value))])
                ELSE Update(M, i, [el EXCEPT !.content = DomString(value)])

ApplyKeyAttrs(M, i, hasAttributes, keyAttrs) ==
    IF M.threw THEN M
    ELSE IF hasAttributes /\ AttrTruthy(keyAttrs) THEN SetElementAttributes(M, i, keyAttrs)
    ELSE M

UncheckRadioNoAttrs(M, i, hasAttributes, keyAttrs) ==
    [M EXCEPT !.dom = SetChecked(M.dom, i, FALSE)]

UncheckRadio(M, i, hasAttributes, keyAttrs) ==
    ApplyKeyAttrs([M EXCEPT !.dom = SetChecked(M.dom, i, FALSE)], i, hasAttributes, keyAttrs)

SetRadioCheckedStrict(M, i, targetValue, hasAttributes, keyAttrs) ==
    ApplyKeyAttrs(
        [M EXCEPT !.dom = SetChecked(M.dom, i, targetValue = Str(M.dom[i].value))],
        i, hasAttributes, keyAttrs)

SetRadioChecked(M, i, targetValue, hasAttributes, keyAttrs) ==
    ApplyKeyAttrs(
        [M EXCEPT !.dom = SetChecked(M.dom, i, LooseEquals(targetValue, M.dom[i].value))],
        i, hasAttributes, keyAttrs)

SetCheckboxCheckedSticky(M, i, valuesToCheck, hasAttributes, keyAttrs) ==
    LET isChecked == \E k \in 1..Len(valuesToCheck) :
                        LooseEquals(valuesToCheck[k], M.dom[i].value)
    IN  ApplyKeyAttrs(
            [M EXCEPT !.dom = SetChecked(M.dom, i, isChecked \/ M.dom[i].checked)],
            i, hasAttributes, keyAttrs)

SetCheckboxChecked(M, i, valuesToCheck, hasAttributes, keyAttrs) ==
    LET isChecked == \E k \in 1..Len(valuesToCheck) :
                        LooseEquals(valuesToCheck[k], M.dom[i].value)
    IN  ApplyKeyAttrs([M EXCEPT !.dom = SetChecked(M.dom, i, isChecked)],
                      i, hasAttributes, keyAttrs)

IndexedValueShifted(value, index) ==
    IF IsArray(value)
    THEN IF index + 1 <= Len(value.a) /\ ~IsNullish(value.a[index + 1])
         THEN value.a[index + 1] ELSE Str(<<>>)
    ELSE value

IndexedValueCyclic(value, index) ==
    IF IsArray(value)
    THEN IF value.a = <<>> THEN Str(<<>>)
         ELSE LET e == value.a[((index - 1) % Len(value.a)) + 1] IN
              IF IsNullish(e) THEN Str(<<>>) ELSE e
    ELSE value

\* valuesToSet[index] ?? '' when the value is a sequence, else the value
IndexedValue(value, index) ==
    IF IsArray(value)
    THEN IF index <= Len(value.a) /\ ~IsNullish(value.a[index])
         THEN value.a[index] ELSE Str(<<>>)
    ELSE value

PopulateIndexedElement(M, i, value, index, sanitizeHtml, hasAttributes, keyAttrs) ==
    ApplyKeyAttrs(PopulateElement(M, i, IndexedValue(value, index), sanitizeHtml),
                  i, hasAttributes, keyAttrs)

\* the fan-out loops: element k of the group, k = 1..Len(elements), stopping
\* at the first exception
RECURSIVE FanOut(_, _, _, _, _, _, _, _)
FanOut(M, elements, k, kind, value, sanitizeHtml, hasAttributes, keyAttrs) ==
    IF M.threw \/ k > Len(elements) THEN M
    ELSE LET i == elements[k]
             N == CASE kind = "uncheck"  -> UncheckRadio(M, i, hasAttributes, keyAttrs)
                    [] kind = "radio"    ->
                          SetRadioChecked(M, i, value, hasAttributes, keyAttrs)
                    [] kind = "checkbox" ->
                          SetCheckboxChecked(M, i, AsArray(value).a, hasAttributes, keyAttrs)
                    [] kind = "indexed"  ->
                          PopulateIndexedElement(M, i, value, k, sanitizeHtml,
                                                 hasAttributes, keyAttrs)
         IN  FanOut(N, elements, k + 1, kind, value, sanitizeHtml, hasAttributes, keyAttrs)

\* the body of the try block for one key
PopulateKeyBody(M, key, value, attributes, sanitizeHtml) ==
    LET elements == FindElementsByNameOrId(M.dom, key)
        hasAttributes == key \in DOMAIN attributes
        keyAttrs == IF hasAttributes THEN attributes[key] ELSE AttrNull
        first == M.dom[elements[1]]
    IN  IF Len(elements) = 0 THEN M
        ELSE IF Len(elements) > 1 \/ first.type = "radio" \/ first.type = "checkbox" THEN
            IF first.type = "radio" THEN
                FanOut(M, elements, 1, IF IsNullish(value) THEN "uncheck" ELSE "radio",
                       value, sanitizeHtml, hasAttributes, keyAttrs)
            ELSE IF first.type = "checkbox" THEN
                FanOut(M, elements, 1, "checkbox", value, sanitizeHtml,
                       hasAttributes, keyAttrs)
            ELSE FanOut(M, elements, 1, "indexed", value, sanitizeHtml,
                        hasAttributes, keyAttrs)
        ELSE LET P == PopulateElement(M, elements[1], value, sanitizeHtml) IN
             IF P.threw \/ ~hasAttributes THEN P
             ELSE SetElementAttributes(P, elements[1], keyAttrs)

NoCatch(M, key) == M

\* try { ... } catch(error) { console.error(...) }
Catch(M, key) ==
    IF M.threw THEN [M EXCEPT !.threw = FALSE, !.errors = Append(@, key)] ELSE M

RECURSIVE PopulateKeys(_, _, _, _)

\* the loop left after its first key
PopulateKeysFirstOnly(M, pairs, attributes, sanitizeHtml) ==
    IF M.threw \/ pairs = <<>> THEN M
    ELSE Catch(PopulateKeyBody(M, Head(pairs).k, Head(pairs).v, attributes, sanitizeHtml),
               Head(pairs).k)

PopulateKeys(M, pairs, attributes, sanitizeHtml) ==
    IF M.threw \/ pairs = <<>> THEN M
    ELSE PopulateKeys(
            Catch(PopulateKeyBody(M, Head(pairs).k, Head(pairs).v, attributes, sanitizeHtml),
                  Head(pairs).k),
            Tail(pairs), attributes, sanitizeHtml)

---------------------------------------------------------------------------
(* getValues *)

\* what one typed getter gives: the value, the adapter calls, a raised error
Got(v, lg, threw) == [v |-> v, log |-> lg, threw |-> threw]

SelectedValues(el) ==
    LET IsSel(o) == o.selected
        sel == SelectIdx(el.options, IsSel, 1)
    IN  Arr([k \in 1..Len(sel) |-> Str(el.options[sel[k]].value)])

ExtractSelectValueNullable(el) ==
    LET IsSel(o) == o.selected IN
    IF el.multiple THEN SelectedValues(el)
    ELSE IF SelectIdx(el.options, IsSel, 1) = <<>> THEN Null
    ELSE Str(SelectValue(el))

ExtractSelectValue(el) ==
    IF el.multiple THEN SelectedValues(el) ELSE Str(SelectValue(el))

ExtractInputValueViaSet(el, i) ==
    IF el.type \in {"checkbox", "radio"}
    THEN Got(IF el.checked THEN Str(el.value) ELSE Str(<<>>), <<>>, FALSE)
    ELSE IF env.autonumeric /\ el.an # "none"
    THEN Got(Str(el.value),
             <<[el |-> i, obj |-> "an", m |-> "set", arg |-> Str(el.value),
               seen |-> SelectedSet(el)]>>,
             el.an = "throws")
    ELSE Got(Str(el.value), <<>>, FALSE)

ExtractInputValue(el, i) ==
    IF el.type \in {"checkbox", "radio"}
    THEN Got(IF el.checked THEN Str(el.value) ELSE Str(<<>>), <<>>, FALSE)
    ELSE IF env.autonumeric /\ el.an # "none"
    THEN Got(Str(el.value),
             <<[el |-> i, obj |-> "an", m |-> "getNumericString", arg |-> Undef,
               seen |-> SelectedSet(el)]>>,
             el.an = "throws")
    ELSE Got(Str(el.value), <<>>, FALSE)

ExtractElementValue(el, i) ==
    CASE el.tag = "input" -> ExtractInputValue(el, i)
      [] el.tag = "textarea" -> Got(Str(el.value), <<>>, FALSE)
      [] el.tag = "select" -> Got(ExtractSelectValue(el), <<>>, FALSE)
      [] el.tag \in MediaTags -> Got(Str(el.src), <<>>, FALSE)
      [] el.tag = "a" -> Got(Str(el.href), <<>>, FALSE)
      [] OTHER -> Got(Str(IF TextOf(el.content) # <<>> THEN TextOf(el.content)
                          ELSE el.content), <<>>, FALSE)

\* elements.map(el => this._extractElementValue(el)), stopping at an exception
RECURSIVE ExtractAll(_, _, _, _)
ExtractAll(d, elements, k, acc) ==
    IF acc.threw \/ k > Len(elements) THEN acc
    ELSE LET g == ExtractElementValue(d[elements[k]], elements[k]) IN
         ExtractAll(d, elements, k + 1,
                    Got(Arr(Append(acc.v.a, g.v)), acc.log \o g.log, g.threw))

\* the value the try block assigns to values[key]: [has |-> FALSE] when it
\* assigns nothing
NoValue == [has |-> FALSE, v |-> Undef, log |-> <<>>, threw |-> FALSE]
Value(g) == [has |-> ~g.threw, v |-> g.v, log |-> g.log, threw |-> g.threw]

CheckboxAlwaysArray(d, elements) ==
    LET IsChecked(i) == d[i].checked
        idx == SelectIdx(elements, IsChecked, 1)
        checkedValues == [k \in 1..Len(idx) |-> Str(d[elements[idx[k]]].value)]
    IN  IF Len(checkedValues) >= 1 THEN Value(Got(Arr(checkedValues), <<>>, FALSE))
        ELSE NoValue

CheckboxValue(d, elements) ==
    LET IsChecked(i) == d[i].checked
        idx == SelectIdx(elements, IsChecked, 1)
        checkedValues == [k \in 1..Len(idx) |-> Str(d[elements[idx[k]]].value)]
    IN  IF Len(checkedValues) = 1 THEN Value(Got(checkedValues[1], <<>>, FALSE))
        ELSE IF Len(checkedValues) > 1 THEN Value(Got(Arr(checkedValues), <<>>, FALSE))
        ELSE NoValue

RadioOmitsUnchecked(d, elements) ==
    LET IsChecked(i) == d[i].checked
        idx == SelectIdx(elements, IsChecked, 1)
    IN  IF idx # <<>> THEN Value(Got(Str(d[elements[idx[1]]].value), <<>>, FALSE))
        ELSE NoValue

RadioValue(d, elements) ==
    LET IsChecked(i) == d[i].checked
        idx == SelectIdx(elements, IsChecked, 1)
    IN  Value(Got(Str(IF idx # <<>> THEN d[elements[idx[1]]].value ELSE <<>>),
                  <<>>, FALSE))

\* an empty group read as the empty string
ExtractKeyEmptyString(d, key) ==
    LET elements == FindElementsByNameOrId(d, key)
        first == d[elements[1]]
    IN  IF Len(elements) = 0 THEN Value(Got(Str(<<>>), <<>>, FALSE))
        ELSE IF first.type = "radio" THEN RadioValue(d, elements)
        ELSE IF first.type = "checkbox" THEN CheckboxValue(d, elements)
        ELSE IF Len(elements) = 1
             THEN Value(ExtractElementValue(first, elements[1]))
             ELSE Value(ExtractAll(d, elements, 1, Got(Arr(<<>>), <<>>, FALSE)))

ExtractKey(d, key) ==
    LET elements == FindElementsByNameOrId(d, key)
        first == d[elements[1]]
    IN  IF Len(elements) = 0 THEN NoValue
        ELSE IF first.type = "radio" THEN RadioValue(d, elements)
        ELSE IF first.type = "checkbox" THEN CheckboxValue(d, elements)
        ELSE IF Len(elements) = 1
             THEN Value(ExtractElementValue(first, elements[1]))
             ELSE Value(ExtractAll(d, elements, 1, Got(Arr(<<>>), <<>>, FALSE)))

\* a result in progress: the mapping built so far, calls, caught errors
Result == [values |-> [k \in {} |-> Undef], log |-> <<>>, errors |-> <<>>]

RECURSIVE ExtractKeys(_, _, _)

\* the loop left at the first entry that is no string
ExtractKeysUntilNonString(R, d, items) ==
    IF items = <<>> THEN R
    ELSE LET key == Head(items) IN
         IF ~key.isString THEN R
         ELSE LET x == ExtractKey(d, key.k) IN
              ExtractKeys(
                [values |-> IF x.has THEN (key.k :> x.v) @@ R.values ELSE R.values,
                 log    |-> R.log \o x.log,
                 errors |-> IF x.threw THEN Append(R.errors, key.k) ELSE R.errors],
                d, Tail(items))

ExtractKeys(R, d, items) ==
    IF items = <<>> THEN R
    ELSE LET key == Head(items) IN
         IF ~key.isString THEN ExtractKeys(R, d, Tail(items))
         ELSE LET x == ExtractKey(d, key.k) IN
              ExtractKeys(
                [values |-> IF x.has THEN (key.k :> x.v) @@ R.values ELSE R.values,
                 log    |-> R.log \o x.log,
                 errors |-> IF x.threw THEN Append(R.errors, key.k) ELSE R.errors],
                d, Tail(items))

---------------------------------------------------------------------------
(* Arguments of a call *)

\* container arguments: an element, null, an object that is no node
ElementContainer == [truthy |-> TRUE,  nodeType |-> 1]
NullContainer    == [truthy |-> FALSE, nodeType |-> 0]
PlainContainer   == [truthy |-> TRUE,  nodeType |-> 0]

\* data arguments, with what typeof gives for each
DataObject(pairs) == [kind |-> "object", pairs |-> pairs]
DataNull          == [kind |-> "null", pairs |-> <<>>]
DataUndefined     == [kind |-> "undefined", pairs |-> <<>>]
DataString        == [kind |-> "string", pairs |-> <<>>]

TypeOf(arg) == IF arg.kind = "null" THEN "object" ELSE arg.kind

\* keys arguments
KeysArray(items) == [kind |-> "array", items |-> items]
KeysNull         == [kind |-> "null", items |-> <<>>]
KeysUndefined    == [kind |-> "undefined", items |-> <<>>]
KeysString       == [kind |-> "string", items |-> <<>>]

StringKey(k) == [isString |-> TRUE, k |-> k]
NumberKey    == [isString |-> FALSE, k |-> ""]

NoAttributes == [k \in {} |-> AttrNull]

ContainerTruthy(container) == container.truthy

ContainerOk(container) == container.truthy /\ container.nodeType # 0

\* a parameter's default value replaces undefined
DataOrDefault(data) == IF data.kind = "undefined" THEN DataObject(<<>>) ELSE data
KeysOrDefault(keys) == IF keys.kind = "undefined" THEN KeysArray(<<>>) ELSE keys

DataOk(data) == TypeOf(data) = "object" /\ data.kind # "null"
KeysOk(keys) == keys.kind = "array"

\* the last call: its arguments, and whether the call before it was the
\* same operation with the same arguments
NoCall ==
    [op |-> "none", container |-> ElementContainer, data |-> DataUndefined,
     attributes |-> NoAttributes, sanitizeHtml |-> TRUE, keys |-> KeysUndefined,
     again |-> FALSE]

SameCall(c, d) == [c EXCEPT !.again = FALSE] = [d EXCEPT !.again = FALSE]

NoReturn == [threw |-> FALSE, values |-> Result.values, errors |-> <<>>]

---------------------------------------------------------------------------
(* The two entry points *)

Populate(container, data, attributes, sanitizeHtml) ==
    LET d == DataOrDefault(data)
        R == PopulateKeys(Machine(dom), d.pairs, attributes, sanitizeHtml)
        this == [NoCall EXCEPT !.op = "populate", !.container = container,
                               !.data = data, !.attributes = attributes,
                               !.sanitizeHtml = sanitizeHtml]
    IN  /\ pre' = dom
        /\ call' = [this EXCEPT !.again = SameCall(this, call)]
        /\ IF ~ContainerOk(container) \/ ~DataOk(d)
           THEN /\ dom' = dom
                /\ log' = <<>>
                /\ ret' = [NoReturn EXCEPT !.threw = TRUE]
           ELSE /\ dom' = R.dom
                /\ log' = R.log
                /\ ret' = [NoReturn EXCEPT !.threw = R.threw, !.errors = R.errors]
        /\ UNCHANGED env

GetValues(container, keys) ==
    LET ks == KeysOrDefault(keys)
        R == ExtractKeys(Result, dom, ks.items)
        this == [NoCall EXCEPT !.op = "getValues", !.container = container,
                               !.keys = keys]
    IN  /\ pre' = dom
        /\ call' = [this EXCEPT !.again = SameCall(this, call)]
        /\ dom' = dom
        /\ IF ~ContainerOk(container) \/ ~KeysOk(ks)
           THEN /\ log' = <<>>
                /\ ret' = [NoReturn EXCEPT !.threw = TRUE]
           ELSE /\ log' = R.log
                /\ ret' = [NoReturn EXCEPT !.values = R.values, !.errors = R.errors]
        /\ UNCHANGED env

---------------------------------------------------------------------------
(* Generated inputs *)

SeqsUpTo(S, n) == UNION {[1..m -> S] : m \in 0..n}

\* sequence values of at most MaxArr entries
Arrays(S) == {Arr(a) : a \in SeqsUpTo(S, MaxArr)}

DistinctKeys(p) == \A i, j \in 1..Len(p) : i # j => p[i].k # p[j].k

\* data objects of one key
OneKey(K, V) == {DataObject(<<[k |-> k, v |-> v]>>) : k \in K, v \in V}

\* data objects of 2..MaxKeys keys, in every order of insertion
ManyKeys(K, V) ==
    {DataObject(p) : p \in {q \in SeqsUpTo([k : K, v : V], MaxKeys) :
                               Len(q) >= 2 /\ DistinctKeys(q)}}

\* keys arguments of one key, and of 2..MaxKeys distinct keys
OneKeyList(K) == {KeysArray(<<StringKey(k)>>) : k \in K}
KeyLists(K) ==
    {KeysArray(ks) : ks \in {q \in SeqsUpTo({StringKey(k) : k \in K}, MaxKeys) :
                                q # <<>> /\ DistinctKeys(q)}}

PlainPage == [jquery |-> FALSE, autonumeric |-> FALSE]

InitWith(doms, envs) ==
    /\ dom \in doms
    /\ env \in envs
    /\ pre = dom
    /\ call = NoCall
    /\ ret = NoReturn
    /\ log = <<>>

\* what getValues returns for keys on the current subtree
ValuesOf(items) == ExtractKeys(Result, dom, items).values

\* the last call was populate(container, {k: v}) with a valid container
PopulatedOne(k, v) ==
    /\ call.op = "populate"
    /\ call.container = ElementContainer
    /\ call.data = DataObject(<<[k |-> k, v |-> v]>>)

---------------------------------------------------------------------------
(* Text inputs: one input named a, two inputs sharing the name b *)

TextInput(name, value) ==
    [Element EXCEPT !.tag = "input", !.type = "text", !.name = name, !.value = value]

TextDoms ==
    {<<TextInput("a", v), TextInput("b", v), TextInput("b", <<>>)>> :
        v \in {<<>>, <<"o">>}}

TextKeys == {"a", "b", "missing"}
TextStrings == {Str(<<>>), Str(<<"x">>), Str(<<"y", "5">>)}
TextValues == TextStrings \cup {Num(5), Null} \cup Arrays(TextStrings \ {Str(<<>>)})

TextData == OneKey(TextKeys, TextValues)
TextKeyLists == OneKeyList(TextKeys)

InitText == InitWith(TextDoms, {PlainPage})

NextText ==
    \/ \E data \in TextData : Populate(ElementContainer, data, NoAttributes, TRUE)
    \/ \E keys \in TextKeyLists : GetValues(ElementContainer, keys)

SpecText == InitText /\ [][NextText]_vars

IsPlainTextInput(el) ==
    el.tag = "input" /\ el.type = "text" /\ ~(env.autonumeric /\ el.an # "none")

\* C2: populate(c, {a: v}) then getValues(c, [a]) gives {a: v} when a
\* resolves to one plain text input and v is a string; and gives back the
\* sequence v when a resolves to n >= 2 plain text inputs and v is a sequence
\* of n strings.
C2_RoundTrip ==
    \A k \in TextKeys : \A v \in TextValues :
        LET g == FindElementsByNameOrId(dom, k)
            strings == v.t = "str" \/
                       (IsArray(v) /\ \A j \in 1..Len(v.a) : v.a[j].t = "str")
        IN  (/\ PopulatedOne(k, v)
             /\ strings
             /\ g # <<>>
             /\ \A j \in 1..Len(g) : IsPlainTextInput(dom[g[j]])
             /\ (Len(g) = 1 /\ v.t = "str") \/ (Len(g) >= 2 /\ IsArray(v) /\ Len(v.a) = Len(g)))
            => ValuesOf(<<StringKey(k)>>) = (k :> v)

C2_Witness ==
    /\ PopulatedOne("a", Str(<<"y", "5">>))
    /\ pre[1].value # <<"y", "5">>
    /\ ValuesOf(<<StringKey("a")>>) = ("a" :> Str(<<"y", "5">>))

---------------------------------------------------------------------------
(* Names and ids: a key that is the id of one element and the name of      *)
(* others, and an element that carries both a name and an id               *)

Div(id, content) == [Element EXCEPT !.tag = "div", !.id = id, !.content = content]

Named(el, name) == [el EXCEPT !.name = name]
WithId(el, id) == [el EXCEPT !.id = id]

ResolveDoms ==
    {<<Div("x", <<"o", "l", "d">>), TextInput("x", <<>>), Div("w", <<>>)>>,
     <<WithId(TextInput("x", <<"o">>), "w"), Div("x", <<"o", "l", "d">>),
       TextInput("x", <<>>), Div("w", <<"o">>)>>,
     <<Div("w", <<>>), Div("x", <<"o", "l", "d">>), Div("x", <<>>)>>}

ResolveKeys == {"x", "w", "missing"}
ResolveValues == {Str(<<"v">>), Str(<<>>), Null, Arr(<<Str(<<"v">>), Str(<<"u">>)>>)}
ResolveData == OneKey(ResolveKeys, ResolveValues)
ResolveKeyLists == OneKeyList(ResolveKeys)

InitResolve == InitWith(ResolveDoms, {PlainPage})

NextResolve ==
    \/ \E data \in ResolveData : Populate(ElementContainer, data, NoAttributes, TRUE)
    \/ \E keys \in ResolveKeyLists : GetValues(ElementContainer, keys)

SpecResolve == InitResolve /\ [][NextResolve]_vars

\* the positions of d whose element has the name k, as a set
ByName(d, k) == {i \in DOMAIN d : d[i].name = k}
ById(d, k) == {i \in DOMAIN d : d[i].id = k}
Range(f) == {f[i] : i \in DOMAIN f}
Ascending(g) == \A i, j \in DOMAIN g : i < j => g[i] < g[j]

\* d without the elements at the positions in S
RECURSIVE Without(_, _, _)
Without(d, S, i) ==
    IF i > Len(d) THEN <<>>
    ELSE (IF i \in S THEN <<>> ELSE <<d[i]>>) \o Without(d, S, i + 1)

\* C1: the group of a key is all elements of that name in document order,
\* or, only when no element has the name, the first element of that id (or
\* nothing), never a mix; so populate(c, {k: v}) leaves an element that has
\* only the id k unchanged when some element has the name k, and getValues
\* reads only the elements of that name.
C1_NameBeatsId ==
    \A k \in ResolveKeys :
        LET g == FindElementsByNameOrId(dom, k)
            idOnly == ById(dom, k) \ ByName(dom, k)
        IN  /\ Ascending(g)
            /\ ByName(dom, k) # {} => Range(g) = ByName(dom, k)
            /\ ByName(dom, k) = {} =>
                  \/ ById(dom, k) = {} /\ g = <<>>
                  \/ /\ Len(g) = 1
                     /\ g[1] \in ById(dom, k)
                     /\ \A i \in ById(dom, k) : g[1] <= i
            /\ (ByName(dom, k) # {} /\ call.op = "populate"
                  /\ \E v \in ResolveValues : PopulatedOne(k, v))
                  => \A i \in idOnly : dom[i] = pre[i]
            /\ ByName(dom, k) # {} =>
                  ValuesOf(<<StringKey(k)>>)
                    = ExtractKeys(Result, Without(dom, idOnly, 1), <<StringKey(k)>>).values

\* populate(c, {x: 'v'}) on <div id=x>old</div><input name=x>: the input
\* has the value, the div kept its text
C1_Witness ==
    /\ PopulatedOne("x", Str(<<"v">>))
    /\ pre[1].tag = "div" /\ pre[1].id = "x" /\ pre[2].name = "x"
    /\ dom[1] = pre[1]
    /\ dom[2].value = <<"v">> /\ pre[2].value # <<"v">>
    /\ ValuesOf(<<StringKey("x")>>) = ("x" :> Str(<<"v">>))

---------------------------------------------------------------------------
(* Arguments: every kind of container, data and keys argument, on a        *)
(* subtree with a text input and a select that has a widget attached       *)

Select(name, multiple, options) ==
    [Element EXCEPT !.tag = "select", !.name = name, !.multiple = multiple,
                    !.options = options]

ArgsDoms ==
    {<<TextInput("a", <<>>),
       [Select("s", FALSE, <<Option(<<>>, FALSE), Option(<<"x">>, sel)>>)
            EXCEPT !.tomselect = "ok"]>> : sel \in BOOLEAN}

ArgsContainers == {ElementContainer, NullContainer, PlainContainer}
ArgsData ==
    OneKey({"a", "s"}, {Str(<<"x">>), Null})
    \cup {DataObject(<<>>), DataNull, DataUndefined, DataString}
ArgsKeys ==
    OneKeyList({"a", "s"}) \cup {KeysArray(<<>>), KeysNull, KeysUndefined, KeysString}

InitArgs == InitWith(ArgsDoms, {PlainPage})

NextArgs ==
    \/ \E container \in ArgsContainers : \E data \in ArgsData :
          Populate(container, data, NoAttributes, TRUE)
    \/ \E container \in ArgsContainers : \E keys \in ArgsKeys :
          GetValues(container, keys)

SpecArgs == InitArgs /\ [][NextArgs]_vars

Untouched == dom = pre /\ log = <<>>

\* a container argument that is no element: null, or an object that is no node
NotElementLike(container) == container \in {NullContainer, PlainContainer}

---------------------------------------------------------------------------
(* Errors: a numeric-formatting adapter that raises, a malformed attribute *)
(* entry, between keys that succeed                                        *)

Numeric(el, an) == [el EXCEPT !.an = an]

ErrorDoms ==
    {<<Numeric(TextInput("n", v), an), TextInput("a", v),
       TextInput("b", v), Numeric(TextInput("b", v), an)>> :
        v \in {<<>>}, an \in {"ok", "throws"}}

NumericPage == [jquery |-> FALSE, autonumeric |-> TRUE]

ErrorKeys == {"n", "a", "b"}
ErrorValues == {Str(<<"x">>)}
ErrorData == OneKey(ErrorKeys, ErrorValues) \cup ManyKeys(ErrorKeys, ErrorValues)
ErrorAttributes ==
    {NoAttributes,
     "a" :> AttrString(<<"r">>),
     "a" :> AttrObj(<<[name |-> "disabled", v |-> Null]>>)}
ErrorKeyLists == KeyLists(ErrorKeys)

InitErrors == InitWith(ErrorDoms, {NumericPage})

NextErrors ==
    \/ \E data \in ErrorData : \E attributes \in ErrorAttributes :
          Populate(ElementContainer, data, attributes, TRUE)
    \/ \E keys \in ErrorKeyLists : GetValues(ElementContainer, keys)

SpecErrors == InitErrors /\ [][NextErrors]_vars

\* the entries of a sequence that keep a test
Filter(q, Keep(_)) ==
    LET idx == SelectIdx(q, Keep, 1) IN [k \in 1..Len(idx) |-> q[idx[k]]]

\* the positions that belong to the group of some key in ks
GroupsOf(d, ks) == UNION {Range(FindElementsByNameOrId(d, k)) : k \in ks}

\* C4: past the preconditions no error of one key leaves the call; the keys
\* that did not fail, before and after a failing one, end as they end in the
\* call without the failing keys; getValues omits exactly the failing keys.
C4_Isolation ==
    /\ (call.op = "populate" /\ call.container = ElementContainer
          /\ call.data.kind = "object") =>
          LET failed == Range(ret.errors)
              Ok(p) == p.k \notin failed
              rest == Filter(call.data.pairs, Ok)
              alone == PopulateKeys(Machine(pre), rest, call.attributes,
                                    call.sanitizeHtml)
          IN  /\ ~ret.threw
              /\ ~alone.threw /\ alone.errors = <<>>
              /\ \A i \in DOMAIN dom :
                    i \notin GroupsOf(pre, failed) => dom[i] = alone.dom[i]
    /\ (call.op = "getValues" /\ call.container = ElementContainer
          /\ call.keys.kind = "array") =>
          LET failed == Range(ret.errors)
              Ok(key) == key.k \notin failed
              rest == Filter(call.keys.items, Ok)
          IN  /\ ~ret.threw
              /\ \A k \in failed : k \notin DOMAIN ret.values
              /\ ret.values = ExtractKeys(Result, dom, rest).values

\* populate(c, {a: 'x', n: 'x', b: 'x'}-like data) where the adapter of n
\* raised: a, processed before, and b's first element, processed after,
\* hold the value
C4_Witness ==
    /\ call.op = "populate"
    /\ Len(call.data.pairs) >= 2
    /\ call.data.pairs[1].k = "a"
    /\ call.data.pairs[2].k = "n"
    /\ ret.errors = <<"n">>
    /\ ~ret.threw
    /\ pre[2].value = <<>> /\ dom[2].value = <<"x">>
    /\ dom[1].value = pre[1].value

---------------------------------------------------------------------------
(* Radio groups *)

Radio(name, value, checked) ==
    [Element EXCEPT !.tag = "input", !.type = "radio", !.name = name,
                    !.value = value, !.checked = checked]

Checkbox(name, value, checked) ==
    [Element EXCEPT !.tag = "input", !.type = "checkbox", !.name = name,
                    !.value = value, !.checked = checked]

RadioDoms ==
    {<<Radio("r", <<"5">>, FALSE), Radio("r", <<"a">>, c)>> : c \in BOOLEAN}
    \cup {<<Radio("r", <<"5">>, c), Radio("r", <<"0", "5">>, FALSE),
            Radio("r", <<"t", "r", "u", "e">>, FALSE), Radio("r", <<"1">>, FALSE)>> :
            c \in BOOLEAN}
    \cup {<<Radio("r", <<"5">>, FALSE), Checkbox("r", <<"a">>, c),
            Checkbox("r", <<"b">>, c)>> : c \in BOOLEAN}

RadioKeys == {"r", "missing"}
RadioValues ==
    {Null, Undef, Str(<<"5">>), Num(5), Str(<<"a">>), Bool(TRUE), Str(<<"z">>)}
RadioData == OneKey(RadioKeys, RadioValues)
RadioKeyLists == OneKeyList(RadioKeys)

InitRadio == InitWith(RadioDoms, {PlainPage})

NextRadio ==
    \/ \E data \in RadioData : Populate(ElementContainer, data, NoAttributes, TRUE)
    \/ \E keys \in RadioKeyLists : GetValues(ElementContainer, keys)

SpecRadio == InitRadio /\ [][NextRadio]_vars

IsRadio(el) == el.tag = "input" /\ el.type = "radio"
IsCheckbox(el) == el.tag = "input" /\ el.type = "checkbox"

\* the radios among the elements of the name k, when the first is a radio
RadiosOf(d, k) ==
    IF ByName(d, k) # {} /\ IsRadio(d[CHOOSE i \in ByName(d, k) : \A j \in ByName(d, k) : i <= j])
    THEN {i \in ByName(d, k) : IsRadio(d[i])}
    ELSE {}

\* C5 as stated: null or undefined unchecks every radio of the group; any
\* other scalar leaves a radio checked exactly when its value equals the
\* stringified target.
C5_AsStated ==
    \A v \in RadioValues :
        PopulatedOne("r", v) =>
            \A i \in RadiosOf(dom, "r") :
                dom[i].checked <=> (~IsNullish(v) /\ dom[i].value = JsToString(v))

\* C5 as amended: null or undefined unchecks every radio of the group; any
\* other scalar leaves a radio checked exactly when its value == the target
\* (a number or boolean target compared as numbers) and no later radio of
\* the group matches too, since checking a radio unchecks the others.
C5_RadioPopulate ==
    \A v \in RadioValues :
        PopulatedOne("r", v) =>
            \A i \in RadiosOf(dom, "r") :
                dom[i].checked <=>
                    /\ ~IsNullish(v)
                    /\ LooseEquals(v, dom[i].value)
                    /\ \A j \in RadiosOf(dom, "r") :
                          j > i => ~LooseEquals(v, dom[j].value)

\* populate(c, {r: 5}) on radios "5" and "a": "5" is checked, "a", which was
\* checked, no more
C5_Witness ==
    /\ PopulatedOne("r", Num(5))
    /\ Len(dom) = 2
    /\ pre[2].checked /\ ~pre[1].checked
    /\ dom[1].value = <<"5">> /\ dom[1].checked
    /\ ~dom[2].checked

\* the last call was getValues(container, [k]) with a valid container
ExtractedOne(k) ==
    /\ call.op = "getValues"
    /\ call.container = ElementContainer
    /\ call.keys = KeysArray(<<StringKey(k)>>)

\* the elements of the name k that are checked, as a set
CheckedOf(d, k) == {i \in ByName(d, k) : d[i].checked}
Least(S) == CHOOSE i \in S : \A j \in S : i <= j

\* C9: for a group whose first element is a radio, getValues gives the value
\* of the first checked element in document order, or "" when none is
\* checked, and the key is present either way.
C9_RadioExtract ==
    (ExtractedOne("r") /\ RadiosOf(dom, "r") # {}) =>
        /\ "r" \in DOMAIN ret.values
        /\ CheckedOf(dom, "r") = {} => ret.values["r"] = Str(<<>>)
        /\ CheckedOf(dom, "r") # {} =>
              ret.values["r"] = Str(dom[Least(CheckedOf(dom, "r"))].value)

\* getValues on a group with no radio checked gave {r: ""}; and on a group
\* with two checked elements, the first one's value
C9_Witness ==
    /\ ExtractedOne("r")
    /\ RadiosOf(dom, "r") # {}
    /\ CheckedOf(dom, "r") = {}
    /\ ret.values = ("r" :> Str(<<>>))

C9_WitnessFirst ==
    /\ ExtractedOne("r")
    /\ Cardinality(CheckedOf(dom, "r")) >= 2
    /\ ret.values = ("r" :> Str(dom[Least(CheckedOf(dom, "r"))].value))

---------------------------------------------------------------------------
(* Checkbox groups: three boxes named c, one box named t *)

CheckDoms ==
    {<<Checkbox("c", <<"5">>, c), Checkbox("c", <<"a">>, c),
       Checkbox("c", <<"0", "5">>, c), Checkbox("t", <<"a">>, c)>> : c \in BOOLEAN}

CheckKeys == {"c", "t"}
CheckEntries == {Str(<<"a">>), Num(5), Str(<<"0", "5">>)}
CheckValues == {Null, Undef, Str(<<"a">>), Num(5), Str(<<"z">>)} \cup Arrays(CheckEntries)
CheckData == OneKey(CheckKeys, CheckValues)
CheckKeyLists == OneKeyList(CheckKeys)

InitCheck == InitWith(CheckDoms, {PlainPage})

NextCheck ==
    \/ \E data \in CheckData : Populate(ElementContainer, data, NoAttributes, TRUE)
    \/ \E keys \in CheckKeyLists : GetValues(ElementContainer, keys)

SpecCheck == InitCheck /\ [][NextCheck]_vars

\* the value as a sequence: a scalar is wrapped
Entries(v) == IF IsArray(v) THEN v.a ELSE <<v>>

\* C6: after populate(c, {k: v}) on a checkbox group, a box is checked
\* exactly when its value == some entry of v taken as a sequence, whatever it
\* was before; null, undefined and the empty sequence uncheck every box.
C6_CheckboxPopulate ==
    \A k \in CheckKeys : \A v \in CheckValues :
        PopulatedOne(k, v) =>
            /\ \A i \in ByName(dom, k) :
                  dom[i].checked <=>
                      \E e \in Range(Entries(v)) : LooseEquals(e, dom[i].value)
            /\ v \in {Null, Undef, Arr(<<>>)} =>
                  \A i \in ByName(dom, k) : ~dom[i].checked

\* populate(c, {c: ['a']}) on boxes that were all checked: only "a" stays
C6_Witness ==
    /\ PopulatedOne("c", Arr(<<Str(<<"a">>)>>))
    /\ \A i \in ByName(pre, "c") : pre[i].checked
    /\ dom[2].checked /\ ~dom[1].checked /\ ~dom[3].checked

\* the values of the checked elements of the name k, in document order
CheckedValues(d, k) ==
    LET On(el) == el.name = k /\ el.checked
        idx == SelectIdx(d, On, 1)
    IN  [n \in 1..Len(idx) |-> Str(d[idx[n]].value)]

\* C7: for a checkbox group getValues omits the key when no box is checked,
\* gives the one checked value as a scalar when exactly one is, and the
\* sequence of checked values in document order when two or more are; so
\* populate(c, {k: [x]}) that checks exactly one box is followed by
\* getValues(c, [k]) = {k: x's box value}, a scalar.
C7_CheckboxExtract ==
    \A k \in CheckKeys :
        LET vals == CheckedValues(dom, k) IN
        /\ ExtractedOne(k) =>
              /\ Len(vals) = 0 => ret.values = Result.values
              /\ Len(vals) = 1 => ret.values = (k :> vals[1])
              /\ Len(vals) >= 2 => ret.values = (k :> Arr(vals))
        /\ \A x \in CheckEntries :
              (PopulatedOne(k, Arr(<<x>>)) /\ Len(vals) = 1)
                  => ValuesOf(<<StringKey(k)>>) = (k :> vals[1])

\* populate(c, {c: ['a']}) then getValues(c, ['c']) = {c: 'a'}
C7_Witness ==
    /\ PopulatedOne("c", Arr(<<Str(<<"a">>)>>))
    /\ Cardinality(CheckedOf(pre, "c")) = 3
    /\ ValuesOf(<<StringKey("c")>>) = ("c" :> Str(<<"a">>))

---------------------------------------------------------------------------
(* Extraction: one group of each kind under the key k *)

Tagged(tag, name) == [Element EXCEPT !.tag = tag, !.name = name]

KOptions(sel) == <<Option(<<"a">>, sel), Option(<<"b">>, sel)>>

ExtractDoms ==
    {<<Radio("k", <<"a">>, FALSE), Radio("k", <<"b">>, FALSE)>>,
     <<Checkbox("k", <<"a">>, FALSE), Checkbox("k", <<"b">>, TRUE)>>,
     <<Select("k", FALSE, <<Option(<<"a">>, TRUE), Option(<<"b">>, FALSE)>>)>>,
     <<Select("k", TRUE, KOptions(TRUE))>>,
     <<Select("k", TRUE, KOptions(TRUE)), Select("k", TRUE, KOptions(FALSE))>>,
     <<Div("k", <<"&", "l", "t", ";", "b">>)>>,
     <<[Tagged("img", "k") EXCEPT !.src = <<"u">>]>>,
     <<[Tagged("a", "k") EXCEPT !.href = <<"u">>]>>,
     <<Tagged("textarea", "k")>>,
     <<Tagged("ul", "k")>>,
     <<TextInput("k", <<"o">>), Tagged("textarea", "k")>>}

ExtractKeyNames == {"k", "missing"}
ExtractValues == {Null, Str(<<"a">>), Arr(<<Str(<<"a">>), Str(<<"b">>)>>)}
ExtractData == OneKey(ExtractKeyNames, ExtractValues)
ExtractKeyLists ==
    KeyLists(ExtractKeyNames)
    \cup {KeysArray(<<NumberKey, StringKey("k")>>), KeysArray(<<StringKey("k"), NumberKey>>),
          KeysArray(<<NumberKey>>)}

InitExtract == InitWith(ExtractDoms, {PlainPage})

NextExtract ==
    \/ \E data \in ExtractData : Populate(ElementContainer, data, NoAttributes, TRUE)
    \/ \E keys \in ExtractKeyLists : GetValues(ElementContainer, keys)

SpecExtract == InitExtract /\ [][NextExtract]_vars

\* the string keys a keys argument requests
Requested(keys) == {keys.items[n].k : n \in {m \in DOMAIN keys.items : keys.items[m].isString}}

IsStringValue(v) == v.t = "str"
IsStringSeq(v) == v.t = "arr" /\ \A n \in DOMAIN v.a : IsStringValue(v.a[n])

\* no element of the group is checked and no option of it is selected
NoCheckedOrSelected(d, g) ==
    \A n \in DOMAIN g :
        /\ d[g[n]].tag \in {"input", "select"}
        /\ d[g[n]].tag = "input" => d[g[n]].type \in {"radio", "checkbox"}
        /\ ~d[g[n]].checked
        /\ \A o \in DOMAIN d[g[n]].options : ~d[g[n]].options[o].selected

\* C8 as stated: every key of the result is a requested string key and maps
\* to a string or a sequence of strings; a requested key with an empty
\* group, or with a group that has no checked or selected state, is omitted.
C8_AsStated ==
    (call.op = "getValues" /\ ~ret.threw) =>
        /\ DOMAIN ret.values \subseteq Requested(call.keys)
        /\ \A k \in DOMAIN ret.values :
              IsStringValue(ret.values[k]) \/ IsStringSeq(ret.values[k])
        /\ \A k \in Requested(call.keys) :
              LET g == FindElementsByNameOrId(dom, k) IN
              (g = <<>> \/ NoCheckedOrSelected(dom, g)) => k \notin DOMAIN ret.values

\* C8 as amended: every key of the result is a requested string key and
\* maps to a string or to a sequence whose entries are strings or, for
\* multi-selects sharing the key, sequences of strings, never null; a
\* requested key is omitted exactly when its group is empty or is a checkbox
\* group with no box checked: a radio group with none checked maps to "",
\* a select with nothing selected to "" or, when multiple, to the empty
\* sequence.
C8_ResultShape ==
    (call.op = "getValues" /\ ~ret.threw) =>
        /\ DOMAIN ret.values \subseteq Requested(call.keys)
        /\ \A k \in DOMAIN ret.values :
              LET v == ret.values[k] IN
              \/ IsStringValue(v)
              \/ /\ v.t = "arr"
                 /\ \A n \in DOMAIN v.a : IsStringValue(v.a[n]) \/ IsStringSeq(v.a[n])
        /\ \A k \in Requested(call.keys) :
              LET g == FindElementsByNameOrId(dom, k) IN
              /\ k \notin DOMAIN ret.values <=>
                    \/ g = <<>>
                    \/ IsCheckbox(dom[g[1]]) /\ CheckedOf(dom, k) = {}
              /\ (g # <<>> /\ IsRadio(dom[g[1]]) /\ CheckedOf(dom, k) = {})
                    => ret.values[k] = Str(<<>>)
              /\ (Len(g) = 1 /\ dom[g[1]].tag = "select"
                    /\ NoCheckedOrSelected(dom, g))
                    => ret.values[k] = IF dom[g[1]].multiple THEN Arr(<<>>) ELSE Str(<<>>)

\* getValues(c, [5, 'k']) on a single select with nothing selected: {k: ""}
C8_Witness ==
    /\ call.op = "getValues"
    /\ call.keys = KeysArray(<<NumberKey, StringKey("k")>>)
    /\ Len(dom) = 1 /\ dom[1].tag = "select" /\ ~dom[1].multiple
    /\ NoCheckedOrSelected(dom, <<1>>)
    /\ ret.values = ("k" :> Str(<<>>))

---------------------------------------------------------------------------
(* Selects under the key sel: a multi-select, a single select with a       *)
(* placeholder option, two selects sharing the name; with each widget      *)

Widgets ==
    {[tomselect |-> t, selectize |-> z, chosen |-> c] :
        t \in {"none", "ok"}, z \in {"none", "ok"}, c \in {"none", "ok"}}

Widget(el, w) ==
    [el EXCEPT !.tomselect = w.tomselect, !.selectize = w.selectize,
               !.chosen = w.chosen]

SelOptions(sel) ==
    <<Option(<<"a">>, sel), Option(<<"5">>, FALSE), Option(<<"b">>, sel)>>

SelectDoms ==
    {<<Widget(Select("sel", TRUE, SelOptions(sel)), w)>> :
        sel \in BOOLEAN, w \in Widgets}
    \cup {<<Widget(Select("sel", FALSE,
                    <<Option(<<>>, FALSE), Option(<<"a">>, sel), Option(<<"5">>, FALSE)>>), w)>> :
            sel \in BOOLEAN, w \in Widgets}
    \cup {<<Select("sel", FALSE, <<Option(<<"a">>, FALSE), Option(<<"b">>, sel)>>),
            Widget(Select("sel", TRUE, SelOptions(sel)), w)>> :
            sel \in BOOLEAN, w \in Widgets}

SelectEntries == {Str(<<"a">>), Num(5), Str(<<"z">>)}
SelectValues ==
    {Null, Undef, Str(<<>>), Str(<<"a">>), Num(5), Str(<<"z">>)} \cup Arrays(SelectEntries)
SelectData == OneKey({"sel"}, SelectValues)
SelectKeyLists == OneKeyList({"sel"})
SelectPages == {[jquery |-> j, autonumeric |-> FALSE] : j \in BOOLEAN}

InitSelect == InitWith(SelectDoms, SelectPages)

NextSelect ==
    \/ \E data \in SelectData : Populate(ElementContainer, data, NoAttributes, TRUE)
    \/ \E keys \in SelectKeyLists : GetValues(ElementContainer, keys)

SpecSelect == InitSelect /\ [][NextSelect]_vars

\* the value populate routes to the element at position p of a group of n
Routed(v, p, n) ==
    IF n = 1 THEN v
    ELSE IF ~IsArray(v) THEN v
    ELSE IF p <= Len(v.a) /\ ~IsNullish(v.a[p]) THEN v.a[p]
    ELSE Str(<<>>)

Emptyish(v) == v \in {Null, Undef, Str(<<>>), Arr(<<>>)}

\* the adapter calls of the last call that went to element i
LogOf(i) == LET At(c) == c.el = i IN Filter(log, At)

\* a widget call made on element i while none of its options is selected
AdapterCall(i, obj, m, arg) ==
    [el |-> i, obj |-> obj, m |-> m, arg |-> arg, seen |-> {}]

\* the clear step of the widget attached to element i, if any
ClearCalls(el, i) ==
    IF el.tomselect # "none"
    THEN <<AdapterCall(i, "tomselect", "clear", Bool(TRUE)),
           AdapterCall(i, "tomselect", "sync", Undef)>>
    ELSE IF el.selectize # "none"
    THEN <<AdapterCall(i, "selectize", "clear", Bool(TRUE))>>
    ELSE IF env.jquery /\ el.chosen # "none"
    THEN <<AdapterCall(i, "chosen", "val", Null),
           AdapterCall(i, "chosen", "trigger", Undef)>>
    ELSE <<>>

NoneSelected(el) == \A o \in DOMAIN el.options : ~el.options[o].selected

\* C10: when populate routes null, undefined, "" or an empty sequence to a
\* select, the select ends with no option selected whatever was selected
\* before, the widget calls made on it are exactly its clear step, with no
\* setValue and no val(values), and getValues on a lone multi-select then
\* gives the empty sequence.
C10_SelectCleared ==
    \A v \in SelectValues :
        PopulatedOne("sel", v) =>
            LET g == FindElementsByNameOrId(dom, "sel") IN
            \A p \in DOMAIN g :
                Emptyish(Routed(v, p, Len(g))) =>
                    /\ NoneSelected(dom[g[p]])
                    /\ LogOf(g[p]) = ClearCalls(dom[g[p]], g[p])
                    /\ (Len(g) = 1 /\ dom[g[p]].multiple)
                          => ValuesOf(<<StringKey("sel")>>) = ("sel" :> Arr(<<>>))

\* populate(c, {sel: null}) on a multi-select with two options selected and
\* a widget attached: nothing selected, the widget cleared and synchronized,
\* getValues gives {sel: []}
C10_Witness ==
    /\ PopulatedOne("sel", Null)
    /\ Len(dom) = 1 /\ dom[1].multiple
    /\ pre[1].options[1].selected /\ pre[1].options[3].selected
    /\ dom[1].tomselect = "ok"
    /\ NoneSelected(dom[1])
    /\ Len(log) = 2 /\ log[1].m = "clear" /\ log[2].m = "sync"
    /\ ValuesOf(<<StringKey("sel")>>) = ("sel" :> Arr(<<>>))

---------------------------------------------------------------------------
(* The native option loop *)

\* no widget is detected on the element: no tomselect, no selectize, and no
\* chosen marker reachable through the global bridge
NoWidget(el) ==
    /\ el.tomselect = "none"
    /\ el.selectize = "none"
    /\ ~(env.jquery /\ el.chosen # "none")

\* the options a value asks for: every option matching an entry of a
\* sequence, the first option matching a scalar
Asked(el, v) ==
    LET hits(w) == {j \in DOMAIN el.options : LooseEquals(w, el.options[j].value)} IN
    IF IsArray(v) THEN UNION {hits(v.a[n]) : n \in DOMAIN v.a}
    ELSE IF hits(v) = {} THEN {} ELSE {Least(hits(v))}

\* C11: after populate routes a non-empty value to a select on which no
\* widget is detected, the selected options are exactly those the value asks
\* for (all matches of a sequence, the first match of a scalar, none when
\* nothing matches), whatever was selected before.
C11_NativeSelect ==
    \A v \in SelectValues :
        PopulatedOne("sel", v) =>
            LET g == FindElementsByNameOrId(dom, "sel") IN
            \A p \in DOMAIN g :
                (NoWidget(dom[g[p]]) /\ ~Emptyish(Routed(v, p, Len(g)))) =>
                    SelectedSet(dom[g[p]]) = Asked(dom[g[p]], Routed(v, p, Len(g)))

\* the same for selects that accept several selections, and for scalar values
C11_NativeMultipleOrScalar ==
    \A v \in SelectValues :
        PopulatedOne("sel", v) =>
            LET g == FindElementsByNameOrId(dom, "sel") IN
            \A p \in DOMAIN g :
                (/\ NoWidget(dom[g[p]]) /\ ~Emptyish(Routed(v, p, Len(g)))
                 /\ (dom[g[p]].multiple \/ ~IsArray(Routed(v, p, Len(g))))) =>
                    SelectedSet(dom[g[p]]) = Asked(dom[g[p]], Routed(v, p, Len(g)))

\* populate(c, {sel: ['z']}) on a select-one without widget: the first
\* option ends selected
C11_FirstOptionSelected ==
    /\ PopulatedOne("sel", Arr(<<Str(<<"z">>)>>))
    /\ Len(dom) = 1 /\ ~dom[1].multiple /\ NoWidget(dom[1])
    /\ SelectedSet(dom[1]) = {1}

---------------------------------------------------------------------------
(* Attributes: an input, a radio group and a div under the key a, each     *)
(* with and without the two attributes beforehand                          *)

WithAttrs(el, x, y) == [el EXCEPT !.attrs = ("disabled" :> x) @@ ("data-x" :> y)]

PriorAttr == {Absent, Present(<<"o">>)}

AttrDoms ==
    {<<WithAttrs(TextInput("a", <<>>), x, y)>> : x \in PriorAttr, y \in PriorAttr}
    \cup {<<WithAttrs(Radio("a", <<"p">>, FALSE), x, Absent), Radio("a", <<"q">>, TRUE)>> :
            x \in PriorAttr}
    \cup {<<WithAttrs(Div("a", <<>>), x, Absent), WithAttrs(TextInput("b", <<>>), Absent, x)>> :
            x \in PriorAttr}

\* the three sentinels, and a name setAttribute rejects
Sentinels == {Undef, Null, Str(<<"s">>)}
MapEntries == [name : AttrNames, v : Sentinels]
BadEntry == [name |-> "9", v |-> Str(<<"s">>)]

AttrMaps ==
    {AttrObj(<<e>>) : e \in MapEntries}
    \cup {AttrObj(q) : q \in {r \in MapEntries \X MapEntries : r[1].name # r[2].name}}
    \cup {AttrObj(<<BadEntry>>), AttrObj(<<[name |-> "disabled", v |-> Null], BadEntry>>)}
    \cup {AttrNull, AttrString(<<"r">>)}

AttrArguments == {NoAttributes} \cup {"a" :> m : m \in AttrMaps}
AttrData == OneKey({"a"}, {Str(<<"v">>)})
AttrKeyLists == OneKeyList({"a", "b"})

InitAttrs == InitWith(AttrDoms, {PlainPage})

NextAttrs ==
    \/ \E data \in AttrData, attributes \in AttrArguments :
            Populate(ElementContainer, data, attributes, TRUE)
    \/ \E keys \in AttrKeyLists : GetValues(ElementContainer, keys)

SpecAttrs == InitAttrs /\ [][NextAttrs]_vars

\* the last call was populate(container, {a: 'v'}, {a: map})
PopulatedWithMap ==
    /\ call.op = "populate"
    /\ call.container = ElementContainer
    /\ call.data.kind = "object"
    /\ DOMAIN call.attributes = {"a"}
    /\ call.attributes["a"].t = "obj"

MapOf == call.attributes["a"].pairs

AttrOf(el, name) == IF name \in DOMAIN el.attrs THEN el.attrs[name] ELSE Absent

\* the state a sentinel demands of an attribute
Demanded(v) ==
    CASE v.t = "undef" -> Absent
      [] v.t = "null"  -> Present(<<>>)
      [] OTHER         -> Present(JsToString(v))

C13_NullRemoves ==
    (PopulatedWithMap /\ \A n \in DOMAIN MapOf : ValidAttrName(MapOf[n].name)) =>
        \A i \in Range(FindElementsByNameOrId(dom, "a")) : \A n \in DOMAIN MapOf :
            MapOf[n].v = Null => ~AttrOf(dom[i], MapOf[n].name).present

---------------------------------------------------------------------------
(* Markup: a div, a ul, an ol, a textarea, and an ol and a div sharing a   *)
(* name, all under the key d and all with content beforehand               *)

Old == <<"o", "l", "d">>

WithContent(el, c) == [el EXCEPT !.content = c]

MarkupDoms ==
    {<<Div("d", Old)>>,
     <<WithContent(Tagged("ul", "d"), Old)>>,
     <<WithContent(Tagged("ol", "d"), Old)>>,
     <<WithContent(Tagged("textarea", "d"), Old)>>,
     <<WithContent(Tagged("ol", "d"), Old), WithContent(Tagged("div", "d"), Old)>>}

Leaves == {Str(<<"<", "b", ">">>), Str(<<"&">>)}

\* ['&', '&', ...] of n entries
Flat(n) == Arr([k \in 1..n |-> Str(<<"&">>)])

\* ['<b>', ['<b>', ... ['<b>', '&']]] nested n deep
RECURSIVE Nest(_)
Nest(n) ==
    IF n = 0 THEN Arr(<<Str(<<"<", "b", ">">>), Str(<<"&">>)>>)
    ELSE Arr(<<Str(<<"<", "b", ">">>), Nest(n - 1)>>)

FlatLists == {Flat(n) : n \in 0..MaxArr} \cup {Arr(<<Str(<<"<", "b", ">">>), Null>>)}
NestedLists == {Nest(n) : n \in 1..MaxArr} \cup {Arr(<<Arr(<<Arr(<<Str(<<"&">>)>>)>>)>>)}

MarkupValues == Leaves \cup {Null} \cup FlatLists \cup NestedLists
MarkupData == OneKey({"d"}, MarkupValues)
MarkupKeyLists == OneKeyList({"d"})

InitMarkup == InitWith(MarkupDoms, {PlainPage})

NextMarkup ==
    \/ \E data \in MarkupData, sanitizeHtml \in BOOLEAN :
            Populate(ElementContainer, data, NoAttributes, sanitizeHtml)
    \/ \E keys \in MarkupKeyLists : GetValues(ElementContainer, keys)

SpecMarkup == InitMarkup /\ [][NextMarkup]_vars

\* the names of the tags a markup string opens or closes
RECURSIVE TagsOf(_)
TagsOf(s) ==
    IF s = <<>> THEN {}
    ELSE IF Head(s) = "<" /\ IndexOf(s, ">", 1) > 0
    THEN {SubSeq(s, 2, IndexOf(s, ">", 1) - 1)} \cup TagsOf(Drop(s, IndexOf(s, ">", 1)))
    ELSE TagsOf(Tail(s))

\* the tags the list renderer itself writes for a list of the given tag
ListTags(tag) ==
    {<<"l", "i">>, <<"/", "l", "i">>, TagChars(tag), <<"/">> \o TagChars(tag)}

IsList(el) == el.tag \in {"ul", "ol"}
IsGeneric(el) == el.tag \notin ({"input", "textarea", "select", "a", "ul", "ol"} \cup MediaTags)

\* C14: after populate, an element of the key's group that is a list holds
\* no tag but the renderer's own li and list tags, whatever sanitizeHtml is
\* (every string of the data arrives escaped, at every depth); a generic
\* content element holds no tag at all when sanitizeHtml is true; an element
\* of any other kind has its content untouched; raw markup of the data is in
\* the subtree only in generic content elements and only when sanitizeHtml
\* is false.
C14_MarkupSafety ==
    \A v \in MarkupValues :
        PopulatedOne("d", v) =>
            LET g == Range(FindElementsByNameOrId(dom, "d")) IN
            /\ \A i \in g :
                  /\ IsList(dom[i]) => TagsOf(dom[i].content) \subseteq ListTags(dom[i].tag)
                  /\ (IsGeneric(dom[i]) /\ call.sanitizeHtml) =>
                        /\ TagsOf(dom[i].content) = {}
                        /\ \A n \in DOMAIN dom[i].content : dom[i].content[n] # "<"
                  /\ (~IsList(dom[i]) /\ ~IsGeneric(dom[i])) =>
                        dom[i].content = pre[i].content
            /\ \A i \in DOMAIN dom \ g : dom[i].content = pre[i].content

\* populate(c, {d: ['<b>', ['<b>', '&']]}, {}, false) on a ul: the data's
\* tag b is not among the tags of the content, the renderer's own tags are
C14_Witness ==
    /\ PopulatedOne("d", Nest(1))
    /\ ~call.sanitizeHtml
    /\ Len(dom) = 1 /\ dom[1].tag = "ul"
    /\ TagsOf(dom[1].content) = ListTags("ul")

\* populate(c, {d: '<b>'}, {}, false) on a div: the raw markup is written
C14_WitnessRaw ==
    /\ PopulatedOne("d", Str(<<"<", "b", ">">>))
    /\ ~call.sanitizeHtml
    /\ Len(dom) = 1 /\ IsGeneric(dom[1])
    /\ TagsOf(dom[1].content) = {<<"b">>}

\* reading a rendered list back: the items of the markup up to the first
\* thing that is no item, each a text (decoded) or a nested list
RECURSIVE ParseItems(_, _)
ParseItems(s, tag) ==
    LET li == OpenTag(<<"l", "i">>)
        endLi == CloseTag(<<"l", "i">>)
    IN
    IF ~StartsWith(s, li) THEN [ok |-> TRUE, items |-> <<>>, rest |-> s]
    ELSE LET body == Drop(s, Len(li)) IN
         IF StartsWith(body, OpenTag(tag))
         THEN LET inner == ParseItems(Drop(body, Len(OpenTag(tag))), tag)
                  close == CloseTag(tag) \o endLi
                  more == ParseItems(Drop(inner.rest, Len(close)), tag)
              IN  [ok |-> inner.ok /\ StartsWith(inner.rest, close) /\ more.ok,
                   items |-> <<Arr(inner.items)>> \o more.items,
                   rest |-> more.rest]
         ELSE LET n == IndexOf(body, "<", 1)
                  more == ParseItems(Drop(body, n - 1 + Len(endLi)), tag)
              IN  [ok |-> n > 0 /\ StartsWith(Drop(body, n - 1), endLi) /\ more.ok,
                   items |-> <<Str(TextOf(SubSeq(body, 1, n - 1)))>> \o more.items,
                   rest |-> more.rest]

\* the entries of a sequence with every scalar replaced by its text
RECURSIVE Texts(_)
Texts(a) ==
    [n \in DOMAIN a |->
        IF IsArray(a[n]) THEN Arr(Texts(a[n].a))
        ELSE Str(IF IsNullish(a[n]) THEN <<>> ELSE JsToString(a[n]))]

\* C15: after populate gives a sequence to a key resolving to one ul or ol,
\* the element's content is, and is nothing but, one li per entry in order,
\* a scalar entry as its escaped text and a sequence entry as a nested list
\* of the container's own tag rendered the same way; a value that is no
\* sequence becomes the sole content, escaped.
C15_ListRendering ==
    \A v \in MarkupValues :
        (PopulatedOne("d", v) /\ Len(dom) = 1 /\ IsList(dom[1])) =>
            LET P == ParseItems(dom[1].content, TagChars(dom[1].tag)) IN
            IF IsArray(v)
            THEN P.ok /\ P.rest = <<>> /\ P.items = Texts(v.a)
            ELSE /\ TagsOf(dom[1].content) = {}
                 /\ TextOf(dom[1].content) = (IF IsNullish(v) THEN <<>> ELSE JsToString(v))

\* populate(c, {d: ['<b>', ['<b>', '&']]}) on an ol holding "old": an item
\* <b> and an item wrapping a nested ol with the items <b> and &
C15_Witness ==
    /\ PopulatedOne("d", Arr(<<Str(<<"<", "b", ">">>),
                               Arr(<<Str(<<"<", "b", ">">>), Str(<<"&">>)>>)>>))
    /\ Len(dom) = 1 /\ dom[1].tag = "ol" /\ pre[1].content = Old
    /\ dom[1].content =
          Li(<<"&", "l", "t", ";", "b", "&", "g", "t", ";">>)
          \o Li(OpenTag(<<"o", "l">>)
                \o Li(<<"&", "l", "t", ";", "b", "&", "g", "t", ";">>)
                \o Li(<<"&", "a", "m", "p", ";">>)
                \o CloseTag(<<"o", "l">>))

---------------------------------------------------------------------------
(* Repeated and reordered calls: the keys k and j over an input that has   *)
(* the name k and the id j, an input and a div of their own, a select, a   *)
(* radio group with a doubled value, a checkbox group and a list           *)

RepeatDoms ==
    {<<WithId(TextInput("k", <<>>), "j")>>,
     <<TextInput("k", <<>>), Div("j", Old)>>,
     <<Select("k", FALSE, KOptions(FALSE))>>,
     <<Select("k", TRUE, <<Option(<<"a">>, FALSE), Option(<<"b">>, TRUE)>>)>>,
     <<Radio("k", <<"a">>, FALSE), Radio("k", <<"a">>, FALSE), Radio("k", <<"b">>, TRUE)>>,
     <<Checkbox("k", <<"a">>, TRUE), Checkbox("k", <<"b">>, FALSE)>>,
     <<WithContent(Tagged("ul", "k"), Old)>>}

RepeatKeys == {"k", "j"}
RepeatValues == {Null, Str(<<"a">>), Arr(<<Str(<<"a">>), Str(<<"b">>)>>)}
\* {k: 'a', j: 'b'} in both orders of insertion
RepeatPairs ==
    {<<[k |-> "k", v |-> Str(<<"a">>)], [k |-> "j", v |-> Str(<<"b">>)]>>,
     <<[k |-> "j", v |-> Str(<<"b">>)], [k |-> "k", v |-> Str(<<"a">>)]>>}
RepeatData ==
    OneKey({"k"}, RepeatValues) \cup {DataObject(p) : p \in RepeatPairs}
RepeatAttributes ==
    {NoAttributes,
     "k" :> AttrObj(<<[name |-> "disabled", v |-> Null]>>),
     "k" :> AttrObj(<<[name |-> "multiple", v |-> Null]>>)}
RepeatKeyLists == KeyLists(RepeatKeys)

InitRepeat == InitWith(RepeatDoms, {PlainPage})

NextRepeat ==
    \/ \E data \in RepeatData, attributes \in RepeatAttributes, sanitizeHtml \in BOOLEAN :
            Populate(ElementContainer, data, attributes, sanitizeHtml)
    \/ \E keys \in RepeatKeyLists : GetValues(ElementContainer, keys)

SpecRepeat == InitRepeat /\ [][NextRepeat]_vars

\* attributes that resolution or population reads from an element
ReadByPopulate == {"name", "id", "type", "value", "multiple"}

\* no entry of any map of the attributes argument names such an attribute
LeavesInputs(attributes) ==
    \A k \in DOMAIN attributes :
        \A n \in DOMAIN AttrEntries(attributes[k]) :
            AttrEntries(attributes[k])[n].name \notin ReadByPopulate

\* C16 as stated: a call that repeats the call before it, same operation
\* and same arguments, leaves the subtree as that call left it and has the
\* same outcome (the same mapping from getValues).
C16_AsStated ==
    [][call'.again => (dom' = dom /\ ret' = ret)]_vars

\* C16 as amended: the same, for attribute maps that name no attribute
\* resolution or population reads (name, id, type, value, multiple).
C16_Idempotent ==
    [][(call'.again /\ LeavesInputs(call'.attributes)) => (dom' = dom /\ ret' = ret)]_vars

\* populate(c, {k: ['a', 'b']}, {k: {disabled: null}}) a second time on a
\* select multiple: a and b selected and disabled set, as after the first
C16_Witness ==
    /\ call.again /\ call.op = "populate"
    /\ call.data = DataObject(<<[k |-> "k", v |-> Arr(<<Str(<<"a">>), Str(<<"b">>)>>)]>>)
    /\ DOMAIN call.attributes = {"k"}
    /\ LeavesInputs(call.attributes)
    /\ Len(dom) = 1 /\ dom[1].tag = "select" /\ dom[1].multiple
    /\ SelectedSet(dom[1]) = {1, 2}
    /\ dom[1].attrs["disabled"] = Present(<<>>)
    /\ dom = pre

---------------------------------------------------------------------------
(* Unknown keys: the key missing names nothing in the subtree *)

UnknownDoms ==
    {<<TextInput("a", <<"o">>), Div("d", Old), Checkbox("c", <<"v">>, c)>> : c \in BOOLEAN}

UnknownKeys == {"a", "missing"}
UnknownValues == {Str(<<"v">>), Null, Arr(<<Str(<<"v">>), Str(<<"u">>)>>)}
UnknownData ==
    OneKey(UnknownKeys, UnknownValues)
    \cup ManyKeys(UnknownKeys, {Str(<<"v">>), Str(<<"u">>)})
UnknownAttributes ==
    {NoAttributes,
     "missing" :> AttrObj(<<[name |-> "disabled", v |-> Null]>>),
     "missing" :> AttrString(<<"r">>)}
UnknownKeyLists == KeyLists(UnknownKeys)

InitUnknown == InitWith(UnknownDoms, {PlainPage})

NextUnknown ==
    \/ \E data \in UnknownData, attributes \in UnknownAttributes :
            Populate(ElementContainer, data, attributes, TRUE)
    \/ \E keys \in UnknownKeyLists : GetValues(ElementContainer, keys)

SpecUnknown == InitUnknown /\ [][NextUnknown]_vars

\* C17: populate with keys that match no element by name or id does not
\* raise and records no failure for them, changes the subtree exactly as the
\* call without those keys does (not at all when no key is known), with or
\* without an attribute-map entry for them; getValues leaves such keys out
\* of its result and still extracts the others.
C17_UnknownKey ==
    /\ (call.op = "populate" /\ call.container = ElementContainer
          /\ call.data.kind = "object") =>
          LET Known(p) == FindElementsByNameOrId(pre, p.k) # <<>>
              known == Filter(call.data.pairs, Known)
          IN  /\ ~ret.threw /\ ret.errors = <<>>
              /\ dom = PopulateKeys(Machine(pre), known, NoAttributes, TRUE).dom
              /\ known = <<>> => dom = pre
              /\ \A i \in DOMAIN dom : dom[i].attrs = pre[i].attrs
    /\ (call.op = "getValues" /\ call.container = ElementContainer
          /\ call.keys.kind = "array") =>
          /\ ~ret.threw
          /\ \A k \in Requested(call.keys) :
                k \in DOMAIN ret.values <=> FindElementsByNameOrId(dom, k) # <<>>

\* populate(c, {missing: 'u', a: 'v'}, {missing: {disabled: null}}): only
\* the input a changed, no attribute was set
C17_Witness ==
    /\ call.op = "populate"
    /\ call.data = DataObject(<<[k |-> "missing", v |-> Str(<<"u">>)],
                                [k |-> "a", v |-> Str(<<"v">>)]>>)
    /\ DOMAIN call.attributes = {"missing"}
    /\ pre[1].value = <<"o">> /\ dom[1].value = <<"v">>
    /\ \A i \in DOMAIN dom : i # 1 => dom[i] = pre[i]
    /\ ~ret.threw /\ ret.errors = <<>>

\* getValues(c, ['missing', 'a']) gives {a: ...} only
C17_WitnessExtract ==
    /\ call.op = "getValues"
    /\ call.keys = KeysArray(<<StringKey("missing"), StringKey("a")>>)
    /\ DOMAIN ret.values = {"a"}

---------------------------------------------------------------------------
(* Keys that are no strings *)

IsStringKey(key) == key.isString

\* C18: getValues with a keys sequence holding entries that are no strings
\* does not raise and records no failure; no such entry contributes a key,
\* and the result is the one the string entries alone give, wherever the
\* other entries stand.
C18_NonStringKeys ==
    (call.op = "getValues" /\ call.container = ElementContainer
       /\ call.keys.kind = "array"
       /\ \E n \in DOMAIN call.keys.items : ~call.keys.items[n].isString) =>
        /\ ~ret.threw /\ ret.errors = <<>>
        /\ DOMAIN ret.values \subseteq Requested(call.keys)
        /\ ret.values = ValuesOf(Filter(call.keys.items, IsStringKey))

\* getValues(c, ['k', 5]) on an input and a textarea sharing the name k:
\* {k: [..., ...]} as for ['k']
C18_Witness ==
    /\ call.op = "getValues"
    /\ call.keys = KeysArray(<<StringKey("k"), NumberKey>>)
    /\ Len(dom) = 2 /\ dom[1].tag = "input" /\ dom[1].type = "text"
    /\ DOMAIN ret.values = {"k"}
    /\ ret.values["k"] = Arr(<<Str(dom[1].value), Str(dom[2].value)>>)

---------------------------------------------------------------------------
(* The order of the keys *)

\* the orders a sequence of pairs can be taken in
Orders(p) ==
    {[n \in DOMAIN p |-> p[f[n]]] :
        f \in {h \in [DOMAIN p -> DOMAIN p] : \A m, n \in DOMAIN p : m # n => h[m] # h[n]}}

\* no element is in the groups of two keys of the data
DisjointGroups(d, p) ==
    \A m, n \in DOMAIN p :
        m # n => Range(FindElementsByNameOrId(d, p[m].k))
                    \cap Range(FindElementsByNameOrId(d, p[n].k)) = {}

\* the last call was populate with an element container and a data object
\* of two keys or more
PopulatedMany ==
    /\ call.op = "populate"
    /\ call.container = ElementContainer
    /\ call.data.kind = "object"
    /\ Len(call.data.pairs) >= 2

\* the subtree populate leaves when it takes the pairs in the order q
After(q) == PopulateKeys(Machine(pre), q, call.attributes, call.sanitizeHtml).dom

C19_WitnessShared ==
    /\ PopulatedMany
    /\ Len(dom) = 1 /\ ~DisjointGroups(pre, call.data.pairs)
    /\ call.data.pairs[2].k = "k"
    /\ dom[1].value = <<"a">>
    /\ After(<<call.data.pairs[2], call.data.pairs[1]>>)[1].value = <<"b">>

---------------------------------------------------------------------------
(* Which widget a select is set through *)

\* the widget detected on an element, by the priority of the dispatch
Detected(el) ==
    IF el.tomselect # "none" THEN "tomselect"
    ELSE IF el.selectize # "none" THEN "selectize"
    ELSE IF env.jquery /\ el.chosen # "none" THEN "chosen"
    ELSE "native"

\* the set step of a widget for a value
SetCalls(w, i, v) ==
    CASE w = "tomselect" -> <<AdapterCall(i, "tomselect", "setValue", AsArray(v)),
                              AdapterCall(i, "tomselect", "sync", Undef)>>
      [] w = "selectize" -> <<AdapterCall(i, "selectize", "setValue", AsArray(v))>>
      [] w = "chosen"    -> <<AdapterCall(i, "chosen", "val", AsArray(v)),
                              AdapterCall(i, "chosen", "trigger", Undef)>>
      [] w = "native"    -> <<>>

\* C20: when populate routes a non-empty value to a select, the calls made
\* on widgets of that element are the clear step and then the set step of
\* one widget, the first detected of tomselect, selectize, chosen (with the
\* global jQuery present); no other attached widget is called, chosen never
\* without jQuery; the native option loop selects options only when no
\* widget is detected: with a widget, whose methods here leave the options
\* alone, the options are as the clear step left them.
C20_AdapterPriority ==
    \A v \in SelectValues :
        PopulatedOne("sel", v) =>
            LET g == FindElementsByNameOrId(dom, "sel") IN
            \A p \in DOMAIN g :
                LET i == g[p]
                    r == Routed(v, p, Len(g))
                    w == Detected(dom[i])
                IN  ~Emptyish(r) =>
                      /\ LogOf(i) = ClearCalls(dom[i], i) \o SetCalls(w, i, r)
                      /\ \A n \in DOMAIN LogOf(i) : LogOf(i)[n].obj = w
                      /\ w # "native" => NoneSelected(dom[i])
                      /\ (w = "native" /\ Asked(dom[i], r) # {}) => ~NoneSelected(dom[i])

\* populate(c, {sel: 'a'}) on a select with all three widgets attached and
\* jQuery present: tomselect alone is cleared, set and synchronized
C20_Witness ==
    /\ PopulatedOne("sel", Str(<<"a">>))
    /\ env.jquery
    /\ Len(dom) = 1
    /\ dom[1].tomselect = "ok" /\ dom[1].selectize = "ok" /\ dom[1].chosen = "ok"
    /\ Len(log) = 4
    /\ \A n \in DOMAIN log : log[n].obj = "tomselect"
    /\ log[3].m = "setValue" /\ log[3].arg = Arr(<<Str(<<"a">>)>>)

\* the chosen marker without jQuery: the native loop selects the option
C20_WitnessNoBridge ==
    /\ PopulatedOne("sel", Str(<<"a">>))
    /\ ~env.jquery
    /\ Len(dom) = 1 /\ dom[1].chosen = "ok"
    /\ dom[1].tomselect = "none" /\ dom[1].selectize = "none"
    /\ log = <<>>
    /\ ~NoneSelected(dom[1])

---------------------------------------------------------------------------
(* A lone select under the key sel whose widgets may raise from every call *)

OrderWidgets ==
    {[tomselect |-> t, selectize |-> z, chosen |-> c] :
        t \in {"none", "ok", "throws"}, z \in {"none", "ok", "throws"},
        c \in {"none", "ok", "throws"}}

OrderDoms ==
    {<<Widget(Select("sel", TRUE, SelOptions(sel)), w)>> :
        sel \in BOOLEAN, w \in OrderWidgets}
    \cup {<<Widget(Select("sel", FALSE,
                    <<Option(<<>>, FALSE), Option(<<"a">>, sel), Option(<<"5">>, FALSE)>>), w)>> :
            sel \in BOOLEAN, w \in OrderWidgets}

OrderValues ==
    {Null, Str(<<>>), Str(<<"a">>), Str(<<"z">>), Arr(<<Str(<<"a">>), Str(<<"b">>)>>)}
OrderData == OneKey({"sel"}, OrderValues)
OrderKeyLists == OneKeyList({"sel"})

InitOrder == InitWith(OrderDoms, SelectPages)

NextOrder ==
    \/ \E data \in OrderData : Populate(ElementContainer, data, NoAttributes, TRUE)
    \/ \E keys \in OrderKeyLists : GetValues(ElementContainer, keys)

SpecOrder == InitOrder /\ [][NextOrder]_vars

IsPrefix(a, b) == Len(a) <= Len(b) /\ SubSeq(b, 1, Len(a)) = a

\* a widget call that sets a selection: setValue, or val with values
IsSetCall(c) == c.m = "setValue" \/ (c.m = "val" /\ c.arg # Null)

\* C21: in a populate of a select the options are deselected before any
\* widget is called (every widget call sees no option selected), the calls
\* are the widget's silent clear and then, for a non-empty value, its set
\* step, cut short only by a widget call that raises; every tomselect clear
\* and setValue that returns is followed at once by sync; a set call comes
\* only after the complete clear step; without a widget the options
\* selected at the end are those of the value alone, and with a widget the
\* options stay deselected even when the widget raised.
C21_ClearBeforeSet ==
    \A v \in OrderValues :
        (PopulatedOne("sel", v) /\ Len(dom) = 1) =>
            LET el == dom[1]
                w == Detected(el)
                clear == ClearCalls(el, 1)
                full == clear \o (IF Emptyish(v) THEN <<>> ELSE SetCalls(w, 1, v))
            IN  /\ IsPrefix(log, full)
                /\ \A n \in DOMAIN log : log[n].seen = {}
                /\ ret.errors = <<>> => log = full
                /\ ret.errors # <<>> =>
                       /\ log # <<>>
                       /\ el[log[Len(log)].obj] = "throws"
                /\ \A n \in DOMAIN log :
                       IsSetCall(log[n]) =>
                           /\ n > Len(clear)
                           /\ SubSeq(log, 1, Len(clear)) = clear
                /\ \A n \in DOMAIN log :
                       (el.tomselect = "ok" /\ log[n].m \in {"clear", "setValue"}) =>
                           /\ n < Len(log)
                           /\ log[n + 1] = AdapterCall(1, "tomselect", "sync", Undef)
                /\ w # "native" => SelectedSet(el) = {}
                /\ (w = "native" /\ Emptyish(v)) => SelectedSet(el) = {}
                /\ (w = "native" /\ ~Emptyish(v) /\ (el.multiple \/ ~IsArray(v))) =>
                       SelectedSet(el) = Asked(el, v)

\* populate(c, {sel: 'a'}) on a select with options selected and tomselect
\* attached: clear(true), sync, setValue(['a'], true), sync
C21_Witness ==
    /\ PopulatedOne("sel", Str(<<"a">>))
    /\ Len(dom) = 1 /\ dom[1].tomselect = "ok"
    /\ SelectedSet(pre[1]) # {}
    /\ Len(log) = 4
    /\ log[1].m = "clear" /\ log[2].m = "sync"
    /\ log[3].m = "setValue" /\ log[4].m = "sync"

\* the same with a tomselect whose clear raises: the options are already
\* deselected, nothing is set, the key's error is caught
C21_WitnessRaised ==
    /\ PopulatedOne("sel", Str(<<"a">>))
    /\ Len(dom) = 1 /\ dom[1].tomselect = "throws"
    /\ SelectedSet(pre[1]) # {}
    /\ SelectedSet(dom[1]) = {}
    /\ Len(log) = 1 /\ log[1].m = "clear"
    /\ ret.errors = <<"sel">>

---------------------------------------------------------------------------
(* Groups of two and three elements sharing the name g, none of them a     *)
(* radio or a checkbox, followed by an input named h                       *)

FanElement(kind, old) ==
    CASE kind = "input"    -> TextInput("g", old)
      [] kind = "textarea" -> [Element EXCEPT !.tag = "textarea", !.name = "g", !.value = old]
      [] kind = "div"      -> Named(Div("", old), "g")

FanGroups ==
    {<<"input", "input">>, <<"textarea", "div">>, <<"div", "input">>,
     <<"input", "div", "textarea">>}

FanDoms ==
    {[p \in 1..(Len(ks) + 1) |->
        IF p <= Len(ks) THEN FanElement(ks[p], <<"o">>) ELSE TextInput("h", <<"o">>)] :
        ks \in FanGroups}

\* sequence values of up to one entry more than MaxArr, so that with the
\* groups of two a sequence is longer than the group
FanEntries == {Str(<<"x">>), Num(5), Null}
FanArrays == {Arr(a) : a \in SeqsUpTo(FanEntries, MaxArr + 1)}
FanScalars == {Str(<<"x">>), Num(5), Null, Str(<<>>)}
FanValues == FanArrays \cup FanScalars
FanData == OneKey({"g"}, FanValues)
FanKeyLists == OneKeyList({"g"})

InitFan == InitWith(FanDoms, {PlainPage})

NextFan ==
    \/ \E data \in FanData : Populate(ElementContainer, data, NoAttributes, TRUE)
    \/ \E keys \in FanKeyLists : GetValues(ElementContainer, keys)

SpecFan == InitFan /\ [][NextFan]_vars

\* entry i of a sequence for the element at position p = i + 1 of the
\* group, the empty string past the end; a value that is no sequence itself
EntryFor(v, p) ==
    IF ~IsArray(v) THEN v
    ELSE IF p <= Len(v.a) THEN v.a[p] ELSE Str(<<>>)

\* element i after it alone has been populated with value r
Given(d, i, r, sanitizeHtml) == PopulateElement(Machine(d), i, r, sanitizeHtml).dom[i]

\* C22: after populate(c, {g: v}) on a group of n >= 2 elements whose first
\* is neither radio nor checkbox, the element at position p is as if it
\* alone had been populated with entry p of a sequence v, with the empty
\* string past the end of v, with v itself when v is no sequence; a string
\* entry is then the value of an input or textarea; the elements outside
\* the group are untouched, also when v is longer than the group, and no
\* error is raised or logged.
C22_PositionalFanOut ==
    \A v \in FanValues :
        PopulatedOne("g", v) =>
            LET g == FindElementsByNameOrId(pre, "g") IN
            (Len(g) >= 2 /\ pre[g[1]].type \notin {"radio", "checkbox"}) =>
                /\ \A p \in DOMAIN g :
                      LET r == EntryFor(v, p) IN
                      /\ dom[g[p]] = Given(pre, g[p], r, call.sanitizeHtml)
                      /\ (r.t = "str" /\ dom[g[p]].tag \in {"input", "textarea"}) =>
                             dom[g[p]].value = r.s
                /\ \A j \in DOMAIN dom : j \notin Range(g) => dom[j] = pre[j]
                /\ Len(dom) = Len(pre)
                /\ ~ret.threw /\ ret.errors = <<>>

\* populate(c, {g: ['x', 5, 'x']}) on a group of two: 'x' and '5' are
\* written, the third entry nowhere
C22_Witness ==
    /\ PopulatedOne("g", Arr(<<Str(<<"x">>), Num(5), Str(<<"x">>)>>))
    /\ Len(FindElementsByNameOrId(dom, "g")) = 2
    /\ dom[1].tag = "input" /\ dom[1].value = <<"x">>
    /\ dom[2].tag = "input" /\ dom[2].value = <<"5">>
    /\ dom[3].value = <<"o">>
    /\ ret.errors = <<>>

\* a sequence shorter than the group: the elements past its end are emptied
C22_WitnessShort ==
    /\ PopulatedOne("g", Arr(<<Str(<<"x">>)>>))
    /\ Len(FindElementsByNameOrId(dom, "g")) = 3
    /\ pre[2].content # <<>> /\ pre[3].value # <<>>
    /\ dom[1].value = <<"x">> /\ dom[2].content = <<>> /\ dom[3].value = <<>>

\* a value that is no sequence: every element of the group receives it
C22_WitnessScalar ==
    /\ PopulatedOne("g", Num(5))
    /\ Len(FindElementsByNameOrId(dom, "g")) = 3
    /\ pre[1].value # <<"5">>
    /\ dom[1].value = <<"5">> /\ dom[2].content = <<"5">> /\ dom[3].value = <<"5">>

---------------------------------------------------------------------------
(* A group under the key k (two radios, two checkboxes, an input and a div *)
(* sharing the name, or one div with the id) followed by an input named u  *)

TargetDoms ==
    {<<Radio("k", <<"p">>, FALSE), Radio("k", <<"q">>, TRUE), TextInput("u", <<>>)>>,
     <<Checkbox("k", <<"p">>, FALSE), Checkbox("k", <<"q">>, TRUE), TextInput("u", <<>>)>>,
     <<TextInput("k", <<>>), Named(Div("", <<>>), "k"), TextInput("u", <<>>)>>,
     <<Div("k", <<>>), TextInput("u", <<>>)>>}

TargetValues == {Null, Str(<<"p">>)}

TargetData ==
    OneKey({"k"}, TargetValues) \cup OneKey({"u"}, {Str(<<"p">>)})
    \cup {DataObject(<<[k |-> "k", v |-> v], [k |-> "u", v |-> Str(<<"p">>)]>>) :
            v \in TargetValues}
    \cup {DataObject(<<[k |-> "u", v |-> Str(<<"p">>)], [k |-> "k", v |-> v]>>) :
            v \in TargetValues}

SetsDataX == AttrObj(<<[name |-> "data-x", v |-> Str(<<"s">>)]>>)
DropsDataX ==
    AttrObj(<<[name |-> "data-x", v |-> Undef], [name |-> "disabled", v |-> Null]>>)

TargetAttributes ==
    {NoAttributes, "u" :> SetsDataX}
    \cup {"k" :> m : m \in {SetsDataX, DropsDataX, AttrNull, AttrObj(<<BadEntry>>)}}
    \cup {("k" :> m) @@ ("u" :> SetsDataX) : m \in {SetsDataX, DropsDataX}}

TargetKeyLists == OneKeyList({"k", "u"})

InitTarget == InitWith(TargetDoms, {PlainPage})

NextTarget ==
    \/ \E data \in TargetData, attributes \in TargetAttributes :
            Populate(ElementContainer, data, attributes, TRUE)
    \/ \E keys \in TargetKeyLists : GetValues(ElementContainer, keys)

SpecTarget == InitTarget /\ [][NextTarget]_vars

\* the keys of the data argument, and those of them that come with an
\* attribute map
DataKeys == {call.data.pairs[n].k : n \in DOMAIN call.data.pairs}
MappedKeys == {k \in DataKeys \cap DOMAIN call.attributes : call.attributes[k].t = "obj"}

GroupOf(k) == Range(FindElementsByNameOrId(pre, k))

\* C23: after a populate call in which no per-key error occurred, every
\* element of the group of a data key that has an attribute map carries each
\* mapped name in the state its entry demands and its other attributes as
\* before, whichever branch handled the group (radio with a value or with
\* null, checkbox, positional fan-out, single element); every other element
\* keeps its attributes, in particular the group of a key that has a map
\* but is not a key of data.
C23_AttributeTargeting ==
    (/\ call.op = "populate"
     /\ ~ret.threw
     /\ ret.errors = <<>>) =>
        /\ \A k \in MappedKeys : \A i \in GroupOf(k) :
              LET map == call.attributes[k].pairs
                  mapped == {map[n].name : n \in DOMAIN map}
              IN  /\ \A n \in DOMAIN map : AttrOf(dom[i], map[n].name) = Demanded(map[n].v)
                  /\ \A name \in AttrNames \ mapped :
                        AttrOf(dom[i], name) = AttrOf(pre[i], name)
        /\ \A i \in DOMAIN dom :
              (\A k \in MappedKeys : i \notin GroupOf(k)) => dom[i].attrs = pre[i].attrs
        /\ \A k \in DOMAIN call.attributes \ DataKeys : \A i \in GroupOf(k) :
              (\A h \in MappedKeys : i \notin GroupOf(h)) => dom[i].attrs = pre[i].attrs

\* populate(c, {k: null}, {k: {'data-x': 's'}, u: {'data-x': 's'}}) on two
\* radios: both are unchecked and carry data-x, the input named u does not
C23_Witness ==
    /\ call.op = "populate"
    /\ call.data = DataObject(<<[k |-> "k", v |-> Null]>>)
    /\ call.attributes = ("k" :> SetsDataX) @@ ("u" :> SetsDataX)
    /\ Len(dom) = 3 /\ dom[1].type = "radio"
    /\ ~pre[1].attrs["data-x"].present /\ ~pre[2].attrs["data-x"].present
    /\ pre[2].checked /\ ~dom[1].checked /\ ~dom[2].checked
    /\ dom[1].attrs["data-x"] = Present(<<"s">>)
    /\ dom[2].attrs["data-x"] = Present(<<"s">>)
    /\ ~dom[3].attrs["data-x"].present
    /\ ret.errors = <<>>

\* the positional fan-out and the single element, with a second key and its map
C23_WitnessFanOut ==
    /\ call.op = "populate"
    /\ DataKeys = {"k", "u"}
    /\ call.attributes = ("k" :> DropsDataX) @@ ("u" :> SetsDataX)
    /\ Len(dom) = 3 /\ dom[1].type = "text" /\ dom[2].tag = "div"
    /\ pre[1].attrs["data-x"].present /\ ~pre[1].attrs["disabled"].present
    /\ \A i \in {1, 2} : dom[i].attrs["disabled"] = Present(<<>>)
                          /\ ~dom[i].attrs["data-x"].present
    /\ ~pre[3].attrs["data-x"].present
    /\ dom[3].attrs["data-x"] = Present(<<"s">>)

---------------------------------------------------------------------------
(* Reading: a formatted input n, a multi-select s with or without widgets, *)
(* two checkboxes c, a radio r and a div d, on a page with or without the  *)
(* formatting library and jQuery                                           *)

AllWidgets == [tomselect |-> "ok", selectize |-> "ok", chosen |-> "ok"]
NoWidgets == [tomselect |-> "none", selectize |-> "none", chosen |-> "none"]

ReadDoms ==
    {<<Numeric(TextInput("n", <<"7">>), an),
       Widget(Select("s", TRUE, SelOptions(TRUE)), w),
       Checkbox("c", <<"p">>, TRUE), Checkbox("c", <<"q">>, FALSE),
       Radio("r", <<"p">>, TRUE),
       Div("d", <<"o">>)>> :
        an \in {"none", "ok", "throws"}, w \in {NoWidgets, AllWidgets}}

ReadPages == {PlainPage, [jquery |-> TRUE, autonumeric |-> TRUE]}

ReadData ==
    {DataObject(<<[k |-> "n", v |-> Str(<<"x">>)]>>),
     DataObject(<<[k |-> "s", v |-> Arr(<<Str(<<"a">>)>>)]>>),
     DataObject(<<[k |-> "c", v |-> Str(<<"q">>)]>>),
     DataObject(<<[k |-> "d", v |-> Str(<<"v">>)]>>)}

ReadKeys == {"n", "s", "c", "r", "d", "missing"}

ReadKeyLists ==
    OneKeyList(ReadKeys)
    \cup {KeysArray(<<StringKey("n"), StringKey("s")>>),
          KeysArray(<<StringKey("c"), StringKey("n"), StringKey("d")>>),
          KeysArray(<<NumberKey, StringKey("r")>>),
          KeysArray(<<>>), KeysUndefined, KeysNull, KeysString}

ReadContainers == {ElementContainer, NullContainer, PlainContainer}

InitRead == InitWith(ReadDoms, ReadPages)

NextRead ==
    \/ \E data \in ReadData : Populate(ElementContainer, data, NoAttributes, TRUE)
    \/ \E container \in ReadContainers, keys \in ReadKeyLists :
            GetValues(container, keys)

SpecRead == InitRead /\ [][NextRead]_vars

\* the adapter methods that change a widget or an element
Mutating == {"set", "setValue", "clear", "sync", "trigger", "val"}

\* C24: a getValues call leaves every element as it was (value, checked
\* and selected state, content, attributes, attached adapters), whatever
\* the container and the keys and also when a key's error is caught or the
\* call itself raises; the only adapter method it calls is the formatting
\* adapter's getNumericString, on inputs of the requested keys, and never a
\* select widget.
C24_ReadOnly ==
    call.op = "getValues" =>
        /\ dom = pre
        /\ \A n \in DOMAIN log :
              /\ log[n].m \notin Mutating
              /\ log[n].obj = "an" /\ log[n].m = "getNumericString"
              /\ dom[log[n].el].tag = "input"
              /\ \E j \in DOMAIN call.keys.items :
                    /\ call.keys.items[j].isString
                    /\ log[n].el \in Range(FindElementsByNameOrId(dom, call.keys.items[j].k))

\* getValues(c, ['n', 's']) after populate wrote the formatted input and
\* with every widget on the select: one getNumericString call, both keys
\* read, nothing changed
C24_Witness ==
    /\ call.op = "getValues"
    /\ call.container = ElementContainer
    /\ call.keys = KeysArray(<<StringKey("n"), StringKey("s")>>)
    /\ env.autonumeric /\ env.jquery
    /\ dom[1].an = "ok" /\ dom[1].value = <<"x">>
    /\ dom[2].tomselect = "ok"
    /\ Len(log) = 1 /\ log[1].m = "getNumericString"
    /\ DOMAIN ret.values = {"n", "s"}
    /\ ret.errors = <<>>
    /\ dom = pre

\* the formatting adapter raises while c, n, d are read: n is omitted, the
\* elements are as before
C24_WitnessCaught ==
    /\ call.op = "getValues"
    /\ call.container = ElementContainer
    /\ call.keys = KeysArray(<<StringKey("c"), StringKey("n"), StringKey("d")>>)
    /\ env.autonumeric /\ dom[1].an = "throws"
    /\ ret.errors = <<"n">>
    /\ DOMAIN ret.values = {"c", "d"}
    /\ dom = pre

====
